---- MODULE Spec2Model ----
(***************************************************************************)
(* A model of the DHT core of the Holochain conductor:                     *)
(*   - the DhtOp integration workflow and its queue consumer               *)
(*     (integrate_dht_ops_workflow.rs, integrate_dht_ops_consumer.rs),     *)
(*   - the app validation workflow over the validation limbo               *)
(*     (app_validation_workflow.rs),                                       *)
(*   - the cascade read path (cascade.rs, query/entry.rs).                 *)
(* Each part has its own specification over the shared variable list; the  *)
(* variables of the other parts stay at their initial value.               *)
(***************************************************************************)
EXTENDS Integers, Sequences, FiniteSets, TLC

(***************************************************************************)
(* Bounds of the model.                                                    *)
(***************************************************************************)
\* number of ops the producer may put on the integration queue in one run
MaxArrivals == 2
\* largest value of the wall clock read by Timestamp::now()
MaxClock == 1

NoHash == "none"

(***************************************************************************)
(* Headers.  A header is identified with its hash; HeaderOf gives the      *)
(* fields the workflows read.  "address" is replaces_address of an         *)
(* EntryUpdate, removes_address of an ElementDelete and link_add_address   *)
(* of a LinkRemove.  H9 is a header hash no record of the universe has.    *)
(* H1, H2 and H3 create the same entry E1; H1 has the smallest hash and    *)
(* the latest timestamp, H2 and H3 have the same timestamp.  L1 and L2 are  *)
(* links on the base E1 with the same tag, L3 is a link on E1 with another *)
(* tag; R1 removes L1.  G1 is the Dna header of a chain.                   *)
(***************************************************************************)
Headers == {"H1", "H2", "H3", "U1", "D1", "D2", "D9", "L1", "L2", "L3", "R1", "G1"}

HeaderOf(h) ==
    CASE h = "H1" -> [type |-> "EntryCreate", author |-> "A1", entry_hash |-> "E1",
                      address |-> NoHash, base_address |-> NoHash, intended_for |-> NoHash,
                      timestamp |-> 2]
      [] h = "H2" -> [type |-> "EntryCreate", author |-> "A1", entry_hash |-> "E1",
                      address |-> NoHash, base_address |-> NoHash, intended_for |-> NoHash,
                      timestamp |-> 1]
      [] h = "H3" -> [type |-> "EntryCreate", author |-> "A1", entry_hash |-> "E1",
                      address |-> NoHash, base_address |-> NoHash, intended_for |-> NoHash,
                      timestamp |-> 1]
      [] h = "U1" -> [type |-> "EntryUpdate", author |-> "A1", entry_hash |-> "E2",
                      address |-> "H1", base_address |-> NoHash, intended_for |-> "Entry",
                      timestamp |-> 3]
      [] h = "D1" -> [type |-> "ElementDelete", author |-> "A1", entry_hash |-> NoHash,
                      address |-> "H1", base_address |-> NoHash, intended_for |-> NoHash,
                      timestamp |-> 3]
      [] h = "D2" -> [type |-> "ElementDelete", author |-> "A1", entry_hash |-> NoHash,
                      address |-> "H2", base_address |-> NoHash, intended_for |-> NoHash,
                      timestamp |-> 3]
      [] h = "D9" -> [type |-> "ElementDelete", author |-> "A1", entry_hash |-> NoHash,
                      address |-> "H9", base_address |-> NoHash, intended_for |-> NoHash,
                      timestamp |-> 3]
      [] h = "L1" -> [type |-> "LinkAdd", author |-> "A1", entry_hash |-> NoHash,
                      address |-> NoHash, base_address |-> "E1", intended_for |-> NoHash,
                      timestamp |-> 3]
      [] h = "L2" -> [type |-> "LinkAdd", author |-> "A1", entry_hash |-> NoHash,
                      address |-> NoHash, base_address |-> "E1", intended_for |-> NoHash,
                      timestamp |-> 2]
      [] h = "L3" -> [type |-> "LinkAdd", author |-> "A1", entry_hash |-> NoHash,
                      address |-> NoHash, base_address |-> "E1", intended_for |-> NoHash,
                      timestamp |-> 3]
      [] h = "R1" -> [type |-> "LinkRemove", author |-> "A1", entry_hash |-> NoHash,
                      address |-> "L1", base_address |-> "E1", intended_for |-> NoHash,
                      timestamp |-> 4]
      [] h = "G1" -> [type |-> "Dna", author |-> "A1", entry_hash |-> NoHash,
                      address |-> NoHash, base_address |-> NoHash, intended_for |-> NoHash,
                      timestamp |-> 0]

\* the order of the header hashes
HashRank(h) ==
    CASE h = "H1" -> 1 [] h = "H2" -> 2 [] h = "H3" -> 3 [] h = "U1" -> 4
      [] h = "D1" -> 5 [] h = "D2" -> 6 [] h = "D9" -> 7 [] h = "L1" -> 8
      [] h = "R1" -> 9 [] h = "L2" -> 10 [] h = "L3" -> 11 [] h = "G1" -> 12

\* Header::entry_data: the entry hash of a header that carries an entry
entry_data(h) ==
    IF h \in Headers /\ HeaderOf(h).type \in {"EntryCreate", "EntryUpdate"}
    THEN HeaderOf(h).entry_hash ELSE NoHash

(***************************************************************************)
(* DhtOps.  An op is [type, header, entry, signature]; entry is the hash   *)
(* of the entry the op carries, NoHash when it carries none.               *)
(***************************************************************************)
DhtOp(t, h, e) == [type |-> t, header |-> h, entry |-> e, signature |-> "s1"]

\* the result of produce_ops_from_element: Ok(ops) or Err(HeaderWithoutEntry)
Ok(ops) == [ok |-> TRUE, ops |-> ops]
Err == [ok |-> FALSE, ops |-> << >>]

\* the ops of a delete pushed in the other order
produce_ops_from_element_Swapped(h, maybe_entry) ==
    LET hd == HeaderOf(h)
        common == << DhtOp("StoreElement", h, maybe_entry),
                     DhtOp("RegisterAgentActivity", h, NoHash) >>
    IN  CASE hd.type = "LinkAdd" -> Ok(Append(common, DhtOp("RegisterAddLink", h, NoHash)))
          [] hd.type = "LinkRemove" ->
                Ok(Append(common, DhtOp("RegisterRemoveLink", h, NoHash)))
          [] hd.type = "EntryCreate" ->
                IF maybe_entry = NoHash THEN Err
                ELSE Ok(Append(common, DhtOp("StoreEntry", h, maybe_entry)))
          [] hd.type = "EntryUpdate" ->
                IF maybe_entry = NoHash THEN Err
                ELSE Ok(common \o << DhtOp("StoreEntry", h, maybe_entry),
                                     DhtOp("RegisterReplacedBy", h, maybe_entry) >>)
          [] hd.type = "ElementDelete" ->
                Ok(common \o << DhtOp("RegisterDeletedEntryHeader", h, NoHash),
                                DhtOp("RegisterDeletedBy", h, NoHash) >>)
          [] OTHER -> Ok(common)

\* produce_ops_from_element: the ordered ops of the element of header h with
\* the entry maybe_entry, or the error of an entry header that comes without
\* its entry
produce_ops_from_element(h, maybe_entry) ==
    LET hd == HeaderOf(h)
        common == << DhtOp("StoreElement", h, maybe_entry),
                     DhtOp("RegisterAgentActivity", h, NoHash) >>
    IN  CASE hd.type = "LinkAdd" -> Ok(Append(common, DhtOp("RegisterAddLink", h, NoHash)))
          [] hd.type = "LinkRemove" ->
                Ok(Append(common, DhtOp("RegisterRemoveLink", h, NoHash)))
          [] hd.type = "EntryCreate" ->
                IF maybe_entry = NoHash THEN Err
                ELSE Ok(Append(common, DhtOp("StoreEntry", h, maybe_entry)))
          [] hd.type = "EntryUpdate" ->
                IF maybe_entry = NoHash THEN Err
                ELSE Ok(common \o << DhtOp("StoreEntry", h, maybe_entry),
                                     DhtOp("RegisterReplacedBy", h, maybe_entry) >>)
          [] hd.type = "ElementDelete" ->
                Ok(common \o << DhtOp("RegisterDeletedBy", h, NoHash),
                                DhtOp("RegisterDeletedEntryHeader", h, NoHash) >>)
          [] OTHER -> Ok(common)

Range(s) == { s[i] : i \in DOMAIN s }

\* a unique form that keeps the signature of the op
DhtOpHash_WithSignature(op) == << op.type, op.header, op.signature >>

\* DhtOp::as_unique_form / hashable_content: the op hash leaves the signature out
DhtOpHash(op) == << op.type, op.header >>

\* the ops that arrive at this cell
OpUniverse ==
    Range(produce_ops_from_element("H1", entry_data("H1")).ops)
        \cup Range(produce_ops_from_element("D1", NoHash).ops)
    \cup { DhtOp("RegisterDeletedBy", "D9", NoHash),
           DhtOp("RegisterReplacedBy", "U1", "E2"),
           DhtOp("RegisterAddLink", "L1", NoHash),
           DhtOp("RegisterRemoveLink", "R1", NoHash) }

OpHashes == { DhtOpHash(op) : op \in OpUniverse }

\* IntegrationQueueValue
IntegrationQueueValue(op) == [op |-> op, validation_status |-> "Valid"]

(***************************************************************************)
(* State.                                                                  *)
(***************************************************************************)
VARIABLES
    \* --- the committed environment of one cell
    cas,            \* element vault: [headers, entries], sets of hashes
    meta,           \* vault metadata: set of index rows
    integrated_dht_ops, \* integrated-op index: op hash -> IntegratedDhtOpsValue
    integration_queue,  \* sequence of IntegrationQueueValue, in key order
    \* --- the integration queue consumer task
    pc,             \* position of the consumer task
    ws,             \* IntegrateDhtOpsWorkspace and the locals of the running pass
    trigger,        \* TriggerSender/Receiver of the consumer: one pending trigger
    trigger_publish,\* pending trigger of the publish workflow
    stop,           \* the stop broadcast has been sent
    \* --- environment
    producer,       \* position of the workflow that feeds the queue
    now,            \* wall clock
    arrivals,       \* ops put on the queue so far
    \* --- the validation pipeline
    validation_limbo,   \* op hash -> ValidationLimboValue
    integration_limbo,  \* op hash -> IntegrationLimboValue
    element_pending,    \* ops whose data is in the pending store
    element_validated,  \* ops whose data is in the validated store
    \* --- the cascade
    element_cache,      \* element cache: [headers, entries]
    meta_cache,         \* cache metadata: set of index rows
    get_result,         \* the last call of the cascade and what it returned;
                        \* `call` alternates, so that every call is a step
    \* --- the space manager of the conductor
    map,                \* Spaces.map: DnaHash -> Space
    queue_consumer_map, \* the DnaHashes whose queue consumers are spawned
    space_new,          \* DnaHash -> number of Spaces constructed so far
    threads,            \* the callers of get_or_create_space_ref and their position
    gossip_out,         \* the last gossip handler called and what it returned
    published,          \* the number of publish events received so far
    \* --- the production of the ops
    produced,           \* the elements given to produce_ops_from_element so far,
                        \* each with what the call returned
    \* --- the source chains of the cells
    source_chain,       \* cell -> the committed headers of its chain, in order
    workflow_out,       \* cell -> the last chain workflow run and its result
    \* --- the element vault as a buffered store
    vault,              \* the persisted stores: [headers, entries], hash -> content
    vault_scratch,      \* the scratch space of the buffer: [headers, entries],
                        \* hash -> the staged Put or Delete
    \* --- the functions called on their own: the quantized DHT coordinates,
    \*     the fold of the entry query, the countersigning session
    dht_call,           \* the function called and its arguments
    dht_out,            \* what the call returned, NoOut before it returns
    \* --- the host functions that author an element
    host_out,           \* the last element authored and how the call ended;
                        \* `call` alternates, so that every call is a step
    \* --- the receiving half of a websocket
    pending_requests,   \* request id -> RequestItem of the requests awaiting a response
    recv_outgoing,      \* the channel of the messages to send, oldest first
    socket,             \* the messages of the remote end not yet read, oldest first
    waiters,            \* request id -> the receiving end of its oneshot channel
    instant,            \* std::time::Instant::now()
    stream_out          \* what the last poll_next returned

intVars == << cas, meta, integrated_dht_ops, integration_queue, pc, ws, trigger,
              trigger_publish, stop, producer, now, arrivals >>

valVars == << validation_limbo, integration_limbo, element_pending, element_validated >>

cascadeVars == << element_cache, meta_cache, get_result >>

spaceVars == << map, queue_consumer_map, space_new, threads, gossip_out, published >>

opsVars == << produced >>

chainVars == << source_chain, workflow_out >>

vaultVars == << vault, vault_scratch >>

dhtVars == << dht_call, dht_out >>

hostVars == << host_out >>

socketVars == << pending_requests, recv_outgoing, socket, waiters, instant, stream_out >>

\* the parts of the state added to the model after the five above
restVars == << chainVars, vaultVars, dhtVars, hostVars, socketVars >>

\* what the integration consumer and its environment never touch
nonIntVars == << valVars, cascadeVars, spaceVars, opsVars, restVars >>

vars == << intVars, valVars, cascadeVars, spaceVars, opsVars, restVars >>

EmptyCas == [headers |-> {}, entries |-> {}]
EmptyMap == [x \in {} |-> NoHash]

NoWorkspace ==
    [ops |-> << >>, next_ops |-> << >>, cas |-> EmptyCas, meta |-> {},
     integrated_dht_ops |-> EmptyMap, drained |-> 0,
     num_integrated |-> 0, total_integrated |-> 0, result |-> NoHash]

(***************************************************************************)
(* Element store and metadata store operations.                            *)
(***************************************************************************)
\* ChainCasBuf::put
put(element_store, h, maybe_entry) ==
    [headers |-> element_store.headers \cup {h},
     entries |-> element_store.entries \cup (IF maybe_entry = NoHash THEN {} ELSE {maybe_entry})]

\* ChainCasBuf::get_header(..).and_then(|e| e.header().entry_data()):
\* the entry hash of a stored header, NoHash when the header is not stored
\* or carries no entry
get_header_entry(element_store, h) ==
    IF h \in element_store.headers THEN entry_data(h) ELSE NoHash

\* ChainCasBuf::get_entry(..).is_some()
get_entry(element_store, e) == e \in element_store.entries

\* MetadataBuf::register_header
register_header(meta_store, h) ==
    meta_store \cup { << "headers_on_entry", HeaderOf(h).entry_hash, h >> }

\* MetadataBuf::register_activity
register_activity(meta_store, h) ==
    meta_store \cup { << "activity_by_author", HeaderOf(h).author, h >> }

\* MetadataBuf::register_update
register_update(meta_store, h, old_entry_hash) ==
    IF old_entry_hash = NoHash
    THEN meta_store \cup { << "updates_on_header", HeaderOf(h).address, h >> }
    ELSE meta_store \cup { << "updates_on_entry", old_entry_hash, h >> }

\* MetadataBuf::register_delete
register_delete(meta_store, h, entry_hash) ==
    meta_store \cup { << "deletes_on_entry", entry_hash, h >>,
                      << "deletes_on_header", HeaderOf(h).address, h >> }

\* MetadataBuf::add_link
add_link(meta_store, h) ==
    meta_store \cup { << "link_add", HeaderOf(h).base_address, h >> }

\* MetadataBuf::remove_link
remove_link(meta_store, h) ==
    meta_store \cup { << "link_remove", HeaderOf(h).base_address, HeaderOf(h).address >> }

\* DhtOp::dht_basis
dht_basis(op) ==
    LET hd == HeaderOf(op.header)
    IN  CASE op.type = "StoreElement" -> op.header
          [] op.type = "StoreEntry" -> hd.entry_hash
          [] op.type = "RegisterAgentActivity" -> hd.author
          [] op.type = "RegisterReplacedBy" ->
                IF hd.intended_for = "Header" THEN hd.address ELSE entry_data(hd.address)
          [] op.type = "RegisterDeletedBy" -> hd.address
          [] op.type = "RegisterDeletedEntryHeader" -> entry_data(hd.address)
          [] op.type = "RegisterAddLink" -> hd.base_address
          [] op.type = "RegisterRemoveLink" -> hd.base_address

\* dht_op_to_light_basis fails with MissingHeaderEntry when the basis is the
\* entry of a header the element store does not hold
MissingHeaderEntry(op, element_store) ==
    LET hd == HeaderOf(op.header)
    IN  \/ /\ op.type = "RegisterReplacedBy"
           /\ hd.intended_for = "Entry"
           /\ get_header_entry(element_store, hd.address) = NoHash
        \/ /\ op.type = "RegisterDeletedEntryHeader"
           /\ get_header_entry(element_store, hd.address) = NoHash


(***************************************************************************)
(* integrate_single_dht_op, one definition per match arm.  Each arm gives  *)
(* [deferred, element_store, meta_store]: whether the arm returned         *)
(* Outcome::deferred, and the two stores as the arm leaves them.           *)
(***************************************************************************)
Arm(d, es, ms) == [deferred |-> d, element_store |-> es, meta_store |-> ms]

integrate_StoreElement(es, ms, op, integrate_element_data) ==
    Arm(FALSE, IF integrate_element_data THEN put(es, op.header, op.entry) ELSE es, ms)

integrate_StoreEntry(es, ms, op, integrate_element_data) ==
    Arm(FALSE,
        IF integrate_element_data THEN put(es, op.header, op.entry) ELSE es,
        register_header(ms, op.header))

integrate_RegisterAgentActivity(es, ms, op, integrate_element_data) ==
    Arm(FALSE,
        IF integrate_element_data THEN put(es, op.header, NoHash) ELSE es,
        register_activity(ms, op.header))

integrate_RegisterReplacedBy(es, ms, op, integrate_element_data) ==
    LET hd == HeaderOf(op.header)
        old_entry_hash == IF hd.intended_for = "Header" THEN NoHash
                          ELSE get_header_entry(es, hd.address)
    IN  IF hd.intended_for = "Entry" /\ old_entry_hash = NoHash
        THEN Arm(TRUE, es, ms)
        ELSE Arm(FALSE, es, register_update(ms, op.header, old_entry_hash))

integrate_RegisterDeleted(es, ms, op, integrate_element_data) ==
    LET entry_hash == get_header_entry(es, HeaderOf(op.header).address)
    IN  IF entry_hash = NoHash
        THEN Arm(TRUE, es, ms)
        ELSE Arm(FALSE, es, register_delete(ms, op.header, entry_hash))

integrate_RegisterAddLink(es, ms, op, integrate_element_data) ==
    Arm(FALSE,
        IF integrate_element_data THEN put(es, op.header, NoHash) ELSE es,
        add_link(ms, op.header))

\* the arm with the header stored before the base entry is looked up
integrate_RegisterRemoveLink_PutFirst(es, ms, op, integrate_element_data) ==
    LET stored == IF integrate_element_data THEN put(es, op.header, NoHash) ELSE es
    IN  IF ~get_entry(stored, HeaderOf(op.header).base_address)
        THEN Arm(TRUE, stored, ms)
        ELSE Arm(FALSE, stored, remove_link(ms, op.header))

integrate_RegisterRemoveLink(es, ms, op, integrate_element_data) ==
    IF ~get_entry(es, HeaderOf(op.header).base_address)
    THEN Arm(TRUE, es, ms)
    ELSE Arm(FALSE,
             IF integrate_element_data THEN put(es, op.header, NoHash) ELSE es,
             remove_link(ms, op.header))

\* IntegratedDhtOpsValue
IntegratedDhtOpsValue(value, t) ==
    [validation_status |-> value.validation_status,
     basis |-> dht_basis(value.op),
     op |-> DhtOpHash(value.op),
     when_integrated |-> t]

\* integrate_single_dht_op: [outcome, element_store, meta_store, value]
integrate_single_dht_op(es, ms, value, integrate_element_data, t) ==
    LET op == value.op
        arm == CASE op.type = "StoreElement" ->
                        integrate_StoreElement(es, ms, op, integrate_element_data)
                 [] op.type = "StoreEntry" ->
                        integrate_StoreEntry(es, ms, op, integrate_element_data)
                 [] op.type = "RegisterAgentActivity" ->
                        integrate_RegisterAgentActivity(es, ms, op, integrate_element_data)
                 [] op.type = "RegisterReplacedBy" ->
                        integrate_RegisterReplacedBy(es, ms, op, integrate_element_data)
                 [] op.type \in {"RegisterDeletedBy", "RegisterDeletedEntryHeader"} ->
                        integrate_RegisterDeleted(es, ms, op, integrate_element_data)
                 [] op.type = "RegisterAddLink" ->
                        integrate_RegisterAddLink(es, ms, op, integrate_element_data)
                 [] op.type = "RegisterRemoveLink" ->
                        integrate_RegisterRemoveLink(es, ms, op, integrate_element_data)
    IN  IF arm.deferred \/ MissingHeaderEntry(op, arm.element_store)
        THEN [outcome |-> "Deferred", element_store |-> arm.element_store,
              meta_store |-> arm.meta_store, value |-> value]
        ELSE [outcome |-> "Integrated", element_store |-> arm.element_store,
              meta_store |-> arm.meta_store, value |-> IntegratedDhtOpsValue(value, t)]

(***************************************************************************)
(* The integration workflow, one action per step of a pass.                *)
(***************************************************************************)
\* the loop without the look-up in the integrated-op index
not_yet_integrated_Unchecked(workspace, op_hash) == TRUE

\* workspace.integrated_dht_ops.get(&op_hash)?.is_none()
not_yet_integrated(workspace, op_hash) ==
    op_hash \notin DOMAIN workspace.integrated_dht_ops

\* IntegrateDhtOpsWorkspace::new and the drain of the queue
PassStart ==
    /\ pc = "workflow"
    /\ ws' = [NoWorkspace EXCEPT !.ops = integration_queue,
                                 !.drained = Len(integration_queue),
                                 !.cas = cas, !.meta = meta,
                                 !.integrated_dht_ops = integrated_dht_ops]
    /\ pc' = "loop"
    /\ UNCHANGED nonIntVars
    /\ UNCHANGED << cas, meta, integrated_dht_ops, integration_queue, trigger,
                    trigger_publish, stop, producer, now, arrivals >>

\* the iteration with a deferral that ends the `for` loop: the ops behind the
\* deferred one go to next_ops untried
PassStep_BreakOnDeferred ==
    /\ pc = "loop"
    /\ ws.ops # << >>
    /\ LET value == Head(ws.ops)
           op_hash == DhtOpHash(value.op)
           r == integrate_single_dht_op(ws.cas, ws.meta, value, TRUE, now)
       IN  IF not_yet_integrated(ws, op_hash)
           THEN IF r.outcome = "Integrated"
                THEN ws' = [ws EXCEPT !.ops = Tail(ws.ops),
                                      !.cas = r.element_store,
                                      !.meta = r.meta_store,
                                      !.integrated_dht_ops = (op_hash :> r.value) @@ @,
                                      !.num_integrated = @ + 1,
                                      !.total_integrated = @ + 1]
                ELSE ws' = [ws EXCEPT !.ops = << >>,
                                      !.cas = r.element_store,
                                      !.meta = r.meta_store,
                                      !.next_ops = @ \o ws.ops]
           ELSE ws' = [ws EXCEPT !.ops = Tail(ws.ops)]
    /\ UNCHANGED nonIntVars
    /\ UNCHANGED << cas, meta, integrated_dht_ops, integration_queue, pc, trigger,
                    trigger_publish, stop, producer, now, arrivals >>

\* one iteration of `for (op_hash, value) in ops`
PassStep ==
    /\ pc = "loop"
    /\ ws.ops # << >>
    /\ LET value == Head(ws.ops)
           op_hash == DhtOpHash(value.op)
           r == integrate_single_dht_op(ws.cas, ws.meta, value, TRUE, now)
       IN  IF not_yet_integrated(ws, op_hash)
           THEN IF r.outcome = "Integrated"
                THEN ws' = [ws EXCEPT !.ops = Tail(ws.ops),
                                      !.cas = r.element_store,
                                      !.meta = r.meta_store,
                                      !.integrated_dht_ops = (op_hash :> r.value) @@ @,
                                      !.num_integrated = @ + 1,
                                      !.total_integrated = @ + 1]
                ELSE ws' = [ws EXCEPT !.ops = Tail(ws.ops),
                                      !.cas = r.element_store,
                                      !.meta = r.meta_store,
                                      !.next_ops = Append(@, r.value)]
           ELSE ws' = [ws EXCEPT !.ops = Tail(ws.ops)]
    /\ UNCHANGED nonIntVars
    /\ UNCHANGED << cas, meta, integrated_dht_ops, integration_queue, pc, trigger,
                    trigger_publish, stop, producer, now, arrivals >>

\* the loop as a single round: the deferred ops are never tried again
PassRound_Once ==
    /\ pc = "loop"
    /\ ws.ops = << >>
    /\ ws' = [ws EXCEPT !.ops = ws.next_ops, !.next_ops = << >>]
    /\ pc' = "commit"
    /\ UNCHANGED nonIntVars
    /\ UNCHANGED << cas, meta, integrated_dht_ops, integration_queue, trigger,
                    trigger_publish, stop, producer, now, arrivals >>

\* the condition of the do-while loop: `ops = next_ops; ops.len() > 0 && num_integrated > 0`
PassRound ==
    /\ pc = "loop"
    /\ ws.ops = << >>
    /\ IF Len(ws.next_ops) > 0 /\ ws.num_integrated > 0
       THEN /\ ws' = [ws EXCEPT !.ops = ws.next_ops, !.next_ops = << >>,
                                !.num_integrated = 0]
            /\ pc' = pc
       ELSE /\ ws' = [ws EXCEPT !.ops = ws.next_ops, !.next_ops = << >>]
            /\ pc' = "commit"
    /\ UNCHANGED nonIntVars
    /\ UNCHANGED << cas, meta, integrated_dht_ops, integration_queue, trigger,
                    trigger_publish, stop, producer, now, arrivals >>

\* WorkComplete of the pass
WorkComplete(ops) == IF Len(ops) = 0 THEN "Complete" ELSE "Incomplete"

\* the commit with a flush that leaves out the metadata buffer
PassCommit_NoMetaFlush ==
    /\ pc = "commit"
    /\ cas' = [headers |-> cas.headers \cup ws.cas.headers,
               entries |-> cas.entries \cup ws.cas.entries]
    /\ meta' = meta
    /\ integrated_dht_ops' = ws.integrated_dht_ops @@ integrated_dht_ops
    /\ integration_queue' =
            SubSeq(integration_queue, ws.drained + 1, Len(integration_queue)) \o ws.ops
    /\ ws' = [ws EXCEPT !.result = WorkComplete(ws.ops)]
    /\ pc' = "finish"
    /\ UNCHANGED nonIntVars
    /\ UNCHANGED << trigger, trigger_publish, stop, producer, now, arrivals >>

\* the commit without the re-adding of the deferred ops
PassCommit_DropDeferred ==
    /\ pc = "commit"
    /\ cas' = [headers |-> cas.headers \cup ws.cas.headers,
               entries |-> cas.entries \cup ws.cas.entries]
    /\ meta' = meta \cup ws.meta
    /\ integrated_dht_ops' = ws.integrated_dht_ops @@ integrated_dht_ops
    /\ integration_queue' =
            SubSeq(integration_queue, ws.drained + 1, Len(integration_queue))
    /\ ws' = [ws EXCEPT !.result = WorkComplete(ws.ops)]
    /\ pc' = "finish"
    /\ UNCHANGED nonIntVars
    /\ UNCHANGED << trigger, trigger_publish, stop, producer, now, arrivals >>

\* the re-adding of the deferred ops and IntegrateDhtOpsWorkspace::flush_to_txn
PassCommit ==
    /\ pc = "commit"
    /\ cas' = [headers |-> cas.headers \cup ws.cas.headers,
               entries |-> cas.entries \cup ws.cas.entries]
    /\ meta' = meta \cup ws.meta
    /\ integrated_dht_ops' = ws.integrated_dht_ops @@ integrated_dht_ops
    /\ integration_queue' =
            SubSeq(integration_queue, ws.drained + 1, Len(integration_queue)) \o ws.ops
    /\ ws' = [ws EXCEPT !.result = WorkComplete(ws.ops)]
    /\ pc' = "finish"
    /\ UNCHANGED nonIntVars
    /\ UNCHANGED << trigger, trigger_publish, stop, producer, now, arrivals >>

\* the publish trigger decided on the counter of the last round only
publish_after_LastRound(workspace) == workspace.num_integrated > 0

\* `if total_integrated > 0 { trigger_publish.trigger() }`
publish_after(workspace) == workspace.total_integrated > 0

\* the consumer without the trigger of itself
trigger_self_Never(result) == FALSE

\* `if let WorkComplete::Incomplete = .. { trigger_self.trigger() }`
trigger_self(result) == result = "Incomplete"

\* the triggers after the commit, in the workflow and in the consumer loop
PassFinish ==
    /\ pc = "finish"
    /\ trigger_publish' = (trigger_publish \/ publish_after(ws))
    /\ trigger' = (trigger \/ trigger_self(ws.result))
    /\ ws' = [NoWorkspace EXCEPT !.result = ws.result,
                                 !.total_integrated = ws.total_integrated]
    /\ pc' = "listen"
    /\ UNCHANGED nonIntVars
    /\ UNCHANGED << cas, meta, integrated_dht_ops, integration_queue, stop,
                    producer, now, arrivals >>

\* an error of the workflow: nothing is flushed, and the consumer task
\* panics on `.expect("Error running Workflow")`
PassFail ==
    /\ pc \in {"workflow", "loop", "commit"}
    /\ pc' = "panicked"
    /\ ws' = NoWorkspace
    /\ UNCHANGED nonIntVars
    /\ UNCHANGED << cas, meta, integrated_dht_ops, integration_queue, trigger,
                    trigger_publish, stop, producer, now, arrivals >>

\* futures::future::select(next_job, kill): the left future is polled first
Listen ==
    /\ pc = "listen"
    /\ IF trigger
       THEN /\ trigger' = FALSE
            /\ pc' = "workflow"
       ELSE /\ stop
            /\ trigger' = trigger
            /\ pc' = "stopped"
    /\ UNCHANGED nonIntVars
    /\ UNCHANGED << cas, meta, integrated_dht_ops, integration_queue, ws,
                    trigger_publish, stop, producer, now, arrivals >>

(***************************************************************************)
(* Environment of the consumer.                                            *)
(***************************************************************************)
\* the validation workflow commits an op to the integration queue ...
Enqueue(op) ==
    /\ producer = "idle"
    /\ arrivals < MaxArrivals
    /\ integration_queue' = Append(integration_queue, IntegrationQueueValue(op))
    /\ producer' = "committed"
    /\ arrivals' = arrivals + 1
    /\ UNCHANGED nonIntVars
    /\ UNCHANGED << cas, meta, integrated_dht_ops, pc, ws, trigger, trigger_publish,
                    stop, now >>

\* ... and then triggers integration; a trigger while one is pending is a no-op
TriggerIntegration ==
    /\ producer = "committed"
    /\ trigger' = TRUE
    /\ producer' = "idle"
    /\ UNCHANGED nonIntVars
    /\ UNCHANGED << cas, meta, integrated_dht_ops, integration_queue, pc, ws,
                    trigger_publish, stop, now, arrivals >>

\* the publish workflow takes its trigger
PublishListen ==
    /\ trigger_publish
    /\ trigger_publish' = FALSE
    /\ UNCHANGED nonIntVars
    /\ UNCHANGED << cas, meta, integrated_dht_ops, integration_queue, pc, ws, trigger,
                    stop, producer, now, arrivals >>

\* the stop broadcast
Stop ==
    /\ ~stop
    /\ stop' = TRUE
    /\ UNCHANGED nonIntVars
    /\ UNCHANGED << cas, meta, integrated_dht_ops, integration_queue, pc, ws, trigger,
                    trigger_publish, producer, now, arrivals >>

\* the wall clock advances
Tick ==
    /\ now < MaxClock
    /\ now' = now + 1
    /\ UNCHANGED nonIntVars
    /\ UNCHANGED << cas, meta, integrated_dht_ops, integration_queue, pc, ws, trigger,
                    trigger_publish, stop, producer, arrivals >>

InitInt ==
    /\ cas = EmptyCas
    /\ meta = {}
    /\ integrated_dht_ops = EmptyMap
    /\ integration_queue = << >>
    /\ pc = "workflow"
    /\ ws = NoWorkspace
    /\ trigger = FALSE
    /\ trigger_publish = FALSE
    /\ stop = FALSE
    /\ producer = "idle"
    /\ now = 0
    /\ arrivals = 0

InitVal ==
    /\ validation_limbo = EmptyMap
    /\ integration_limbo = EmptyMap
    /\ element_pending = {}
    /\ element_validated = {}

\* no element: the None of an Option<Element>
NoElement == [found |-> FALSE, header |-> NoHash, entry |-> NoHash]

InitCascade ==
    /\ element_cache = EmptyCas
    /\ meta_cache = {}
    /\ get_result = [op |-> NoHash, hash |-> NoHash, result |-> NoElement, call |-> 0]

\* the DNAs of the conductor and the tasks that refer to their spaces
DnaHashes == {"dna1", "dna2"}
Threads == {"t1", "t2", "t3"}

\* a task outside get_or_create_space_ref that has been handed no Space yet
NoThread == [pc |-> "idle", dna |-> NoHash, handle |-> 0]

NoGossip ==
    [op |-> NoHash, dna |-> NoHash, countersigning_session |-> FALSE, ops |-> << >>,
     out |-> << >>, ok |-> TRUE, call |-> 0]

\* Spaces::new: an empty map of spaces
InitSpace ==
    /\ map = EmptyMap
    /\ queue_consumer_map = {}
    /\ space_new = [d \in DnaHashes |-> 0]
    /\ threads = [t \in Threads |-> NoThread]
    /\ gossip_out = NoGossip
    /\ published = 0

InitOps == produced = << >>

\* the cells of the conductor
Cells == {"c1", "c2", "c3"}

NoWorkflow == [workflow |-> NoHash, result |-> NoHash]

\* a cell is installed with an empty source chain
InitChain ==
    /\ source_chain = [c \in Cells |-> << >>]
    /\ workflow_out = [c \in Cells |-> NoWorkflow]

\* ChainCasBuf::primary on a fresh environment: nothing persisted, nothing staged
InitVault ==
    /\ vault = [headers |-> EmptyMap, entries |-> EmptyMap]
    /\ vault_scratch = [headers |-> EmptyMap, entries |-> EmptyMap]

NoCall == [fn |-> NoHash]
NoOut == [done |-> FALSE]

\* no function of the DHT coordinates is being called
InitDht ==
    /\ dht_call = NoCall
    /\ dht_out = NoOut

NoHostCall == [header |-> NoHash, outcome |-> NoHash, call |-> 0]

\* no host function has been called
InitHost == host_out = NoHostCall

\* the ids of the requests made on the websocket, and an id never requested
RequestIds == {"r1", "r2"}

UnknownId == "r9"

\* a request not yet made: nothing received, the receiver not dropped
NoWaiter == [state |-> "unsent", got |-> << >>]

NoItems == [id \in {} |-> NoHash]

\* WebsocketReceiver::priv_new: nothing pending, nothing to send, and no
\* request made yet
InitSocket ==
    /\ pending_requests = NoItems
    /\ recv_outgoing = << >>
    /\ socket = << >>
    /\ waiters = [id \in RequestIds |-> NoWaiter]
    /\ instant = 0
    /\ stream_out = "Pending"

\* the conductor state without the DHT coordinates
InitConductor ==
    /\ InitInt /\ InitVal /\ InitCascade /\ InitSpace /\ InitOps /\ InitChain
    /\ InitVault /\ InitHost /\ InitSocket

Init == InitConductor /\ InitDht

NextInt ==
    \/ PassStart
    \/ PassStep
    \/ PassRound
    \/ PassCommit
    \/ PassFinish
    \/ PassFail
    \/ Listen
    \/ \E op \in OpUniverse : Enqueue(op)
    \/ TriggerIntegration
    \/ PublishListen
    \/ Stop
    \/ Tick

Spec == Init /\ [][NextInt]_vars


(***************************************************************************)
(* The consumer and its producer alone, without workflow errors and        *)
(* without shutdown, under the scheduling the runtime gives: the consumer  *)
(* task and the triggering workflow keep running.                          *)
(***************************************************************************)
Consumer == PassStart \/ PassStep \/ PassRound \/ PassCommit \/ PassFinish \/ Listen

NextLive ==
    \/ Consumer
    \/ \E op \in OpUniverse : Enqueue(op)
    \/ TriggerIntegration

SpecLive ==
    Init /\ [][NextLive]_vars /\ WF_vars(Consumer) /\ WF_vars(TriggerIntegration)

(***************************************************************************)
(* Properties of the integration workflow.                                 *)
(***************************************************************************)
Integrated(op) == DhtOpHash(op) \in DOMAIN integrated_dht_ops

Queued(op) == \E i \in DOMAIN integration_queue : integration_queue[i].op = op

\* the rows and elements an integrated op leaves in the vault
EffectsVisible(op) ==
    LET h == op.header
        hd == HeaderOf(h)
    IN  CASE op.type = "StoreElement" ->
                h \in cas.headers /\ (op.entry # NoHash => op.entry \in cas.entries)
          [] op.type = "StoreEntry" ->
                /\ h \in cas.headers /\ op.entry \in cas.entries
                /\ << "headers_on_entry", hd.entry_hash, h >> \in meta
          [] op.type = "RegisterAgentActivity" ->
                h \in cas.headers /\ << "activity_by_author", hd.author, h >> \in meta
          [] op.type = "RegisterReplacedBy" ->
                << "updates_on_entry", entry_data(hd.address), h >> \in meta
          [] op.type \in {"RegisterDeletedBy", "RegisterDeletedEntryHeader"} ->
                /\ << "deletes_on_header", hd.address, h >> \in meta
                /\ << "deletes_on_entry", entry_data(hd.address), h >> \in meta
          [] op.type = "RegisterAddLink" ->
                h \in cas.headers /\ << "link_add", hd.base_address, h >> \in meta
          [] op.type = "RegisterRemoveLink" ->
                h \in cas.headers /\ << "link_remove", hd.base_address, hd.address >> \in meta

\* the records all of whose derived ops arrive at this cell
WholeRecords ==
    { h \in Headers :
        Range(produce_ops_from_element(h, entry_data(h)).ops) \subseteq OpUniverse }

\* C1 as stated: in every committed state the ops derived from one record
\* are integrated all together or not at all.
C1_RecordAtomic ==
    \A h \in WholeRecords :
        LET ops == Range(produce_ops_from_element(h, entry_data(h)).ops)
        IN  (\A op \in ops : Integrated(op)) \/ (\A op \in ops : ~Integrated(op))

\* C1 amended: integration is atomic per op and per pass, not per record: in
\* every committed state each op of the integrated-op index is there together
\* with its element-store and metadata effects, and the index changes only in
\* the one commit of a pass, together with the stores.
C1_OpAtomic ==
    /\ [](\A op \in OpUniverse : Integrated(op) => EffectsVisible(op))
    /\ [][integrated_dht_ops' # integrated_dht_ops
            => pc = "commit" /\ pc' = "finish"
               /\ cas' = ws.cas /\ meta' = ws.meta
               /\ integrated_dht_ops' = ws.integrated_dht_ops]_vars

\* a record partly integrated: StoreElement of D1 is integrated while
\* RegisterDeletedBy of D1 is back in the queue
C1_Witness ==
    /\ Integrated(DhtOp("StoreElement", "D1", NoHash))
    /\ Queued(DhtOp("RegisterDeletedBy", "D1", NoHash))
    /\ ~Integrated(DhtOp("RegisterDeletedBy", "D1", NoHash))
    /\ pc = "finish"

\* C2: integration idempotence.  Processing an op that is already in the
\* integrated-op index (from an earlier pass, or from earlier in the same
\* batch) changes neither the element store, the metadata, the index nor the
\* counters, and the op is not put back: no op left for the queue at the
\* commit is an integrated one.
C2_Idempotent ==
    /\ [][(/\ pc = "loop" /\ pc' = "loop" /\ ws.ops # << >> /\ ws' # ws
           /\ DhtOpHash(Head(ws.ops).op) \in DOMAIN ws.integrated_dht_ops)
          => ws' = [ws EXCEPT !.ops = Tail(ws.ops)]]_vars
    /\ [](pc = "commit" =>
            \A i \in DOMAIN ws.ops :
                DhtOpHash(ws.ops[i].op) \notin DOMAIN ws.integrated_dht_ops)

\* an op integrated at an earlier time is at the head of the batch again
C2_Witness ==
    /\ pc = "loop" /\ ws.ops # << >>
    /\ DhtOpHash(Head(ws.ops).op) \in DOMAIN integrated_dht_ops
    /\ integrated_dht_ops[DhtOpHash(Head(ws.ops).op)].when_integrated < now

\* C3: integration is atomic per op.  A deferred op leaves the scratch of the
\* element store and of the metadata as they were, a failed workflow commits
\* nothing, and the vault only ever changes by the commit of a pass.
C3_OpAtomic ==
    /\ [][pc = "loop" /\ Len(ws'.next_ops) > Len(ws.next_ops)
            => ws'.cas = ws.cas /\ ws'.meta = ws.meta
               /\ ws'.integrated_dht_ops = ws.integrated_dht_ops]_vars
    /\ [][pc # "panicked" /\ pc' = "panicked"
            => UNCHANGED << cas, meta, integrated_dht_ops, integration_queue >>]_vars
    /\ [][<< cas, meta >>' # << cas, meta >>
            => pc = "commit" /\ cas' = ws.cas /\ meta' = ws.meta]_vars

\* an op has been deferred in a pass in which another op wrote to the scratch
C3_Witness ==
    /\ pc = "loop"
    /\ ws.next_ops # << >>
    /\ ws.cas # cas

\* an op the committed vault lets integrate
Integrable(op) ==
    integrate_single_dht_op(cas, meta, IntegrationQueueValue(op), TRUE, now).outcome
        = "Integrated"

\* C5: an op that cannot be integrated does not stall the pipeline: every
\* queued op that the vault lets integrate is eventually integrated, whatever
\* else is in the queue.
C5_NoStall ==
    \A op \in OpUniverse : (Queued(op) /\ Integrable(op)) ~> Integrated(op)

\* an integrable op has been integrated while an op that can never be
\* integrated is still queued in front of it
C5_Witness ==
    /\ integration_queue # << >>
    /\ Head(integration_queue).op = DhtOp("RegisterDeletedBy", "D9", NoHash)
    /\ Integrated(DhtOp("StoreElement", "H1", "E1"))
    /\ arrivals = MaxArrivals
    /\ pc = "listen"

\* C6: the consumer sleeps only on an empty queue.  When it waits with no
\* trigger pending and no producer about to trigger it, the queue is empty;
\* after an Incomplete pass a trigger is pending, so another pass runs; and
\* the pending triggers, however many were sent, start one pass.
C6_DrainBeforeSleep ==
    /\ [](pc = "listen" /\ ~trigger /\ producer = "idle" => integration_queue = << >>)
    /\ [](pc = "listen" /\ ws.result = "Incomplete" => trigger)
    /\ [][pc = "listen" /\ pc' = "workflow" => trigger /\ ~trigger']_vars
    /\ ((pc = "finish" /\ ws.result = "Incomplete") ~> pc = "workflow")

\* the consumer is about to listen after an Incomplete pass, with a trigger
\* of the producer already pending
C6_Witness ==
    /\ pc = "finish" /\ ws.result = "Incomplete"
    /\ trigger
    /\ integration_queue # << >>

\* C7: publish is triggered after the commit of a pass exactly when the pass
\* integrated an op.
C7_PublishTrigger ==
    /\ [][pc = "commit" /\ pc' = "finish"
            => ((DOMAIN integrated_dht_ops' # DOMAIN integrated_dht_ops)
                    <=> ws'.total_integrated > 0)]_vars
    /\ [][pc = "finish" /\ pc' = "listen"
            => trigger_publish' = (trigger_publish \/ ws.total_integrated > 0)]_vars
    /\ [][~trigger_publish /\ trigger_publish' => pc = "finish"]_vars

\* a pass that integrated an op in its first round and nothing in its last
\* has triggered publish
C7_Witness ==
    /\ pc = "listen"
    /\ trigger_publish
    /\ ws.total_integrated > 0
    /\ ws.result = "Incomplete"


(***************************************************************************)
(* The validation limbo and the app validation workflow.                   *)
(***************************************************************************)
\* number of tries after which the model stops re-running app validation
MaxTries == 2

\* the ops received for validation, in key (op hash) order
LimboKeys == << "op_a", "op_b", "op_c", "op_d" >>

\* the ops whose integration an op needs proof of; "op_z" is never received
awaiting_proof_deps(o) ==
    CASE o = "op_a" -> {}
      [] o = "op_b" -> {"op_a"}
      [] o = "op_c" -> {"op_b"}
      [] o = "op_d" -> {"op_z"}

ValidationLimboValue(o) ==
    [status |-> "Pending", op |-> o, deps |-> awaiting_proof_deps(o),
     last_try |-> NoHash, num_tries |-> 0]

IntegrationLimboValue(o) == [validation_status |-> "Valid", op |-> o]

\* the pass with a filter that lets every status through and a match that
\* treats the ops before system validation like the validated ones
app_validation_route_NoFilter(vlv) ==
    CASE vlv.status = "AwaitingProof" -> "awaiting_ops"
      [] vlv.status = "AwaitingAppDeps" -> "to_val_limbo"
      [] vlv.status \in {"Pending", "AwaitingSysDeps", "SysValidated"} ->
            IF vlv.deps # {} THEN "awaiting_ops" ELSE "to_int_limbo"

\* the filter of drain_iter_filter, the partition and the match on the status:
\* what a pass does with a limbo value
app_validation_route(vlv) ==
    CASE vlv.status \in {"Pending", "AwaitingSysDeps"} -> "leave"
      [] vlv.status = "AwaitingProof" -> "awaiting_ops"
      [] vlv.status = "AwaitingAppDeps" -> "to_val_limbo"
      [] vlv.status = "SysValidated" ->
            IF vlv.deps # {} THEN "awaiting_ops" ELSE "to_int_limbo"

\* AppValidationWorkspace::to_val_limbo
to_val_limbo(w, o, vlv, t) ==
    [w EXCEPT !.validation_limbo =
        (o :> [vlv EXCEPT !.last_try = t, !.num_tries = @ + 1]) @@ @]

\* AppValidationWorkspace::to_int_limbo
to_int_limbo(w, o) ==
    [w EXCEPT !.integration_limbo = (o :> IntegrationLimboValue(o)) @@ @,
              !.element_pending = @ \ {o},
              !.element_validated = @ \cup {o}]

\* `for mut vlv in ops`: the ops of the first loop, one after the other
RECURSIVE validate_ops(_, _, _, _)
validate_ops(w, limbo, ops, t) ==
    IF ops = << >> THEN w
    ELSE LET o == Head(ops)
             vlv == limbo[o]
             route == app_validation_route(vlv)
         IN  validate_ops(IF route = "to_val_limbo" THEN to_val_limbo(w, o, vlv, t)
                          ELSE IF route = "to_int_limbo" THEN to_int_limbo(w, o)
                          ELSE w,
                          limbo, Tail(ops), t)

\* the second loop without the look-up of the dependencies: every op that
\* awaits proof goes to the integration limbo
RECURSIVE check_awaiting_ops_Unproven(_, _, _, _, _)
check_awaiting_ops_Unproven(w, limbo, awaiting_ops, integrated, t) ==
    IF awaiting_ops = << >> THEN w
    ELSE check_awaiting_ops_Unproven(to_int_limbo(w, Head(awaiting_ops)),
                                     limbo, Tail(awaiting_ops), integrated, t)

\* `for mut vlv in awaiting_ops`: the ops that await proof, one after the other
RECURSIVE check_awaiting_ops(_, _, _, _, _)
check_awaiting_ops(w, limbo, awaiting_ops, integrated, t) ==
    IF awaiting_ops = << >> THEN w
    ELSE LET o == Head(awaiting_ops)
             vlv == [limbo[o] EXCEPT !.status = "AwaitingProof"]
             still_awaiting == { dep \in vlv.deps :
                                    /\ dep \notin DOMAIN w.integration_limbo
                                    /\ dep \notin DOMAIN integrated }
         IN  check_awaiting_ops(
                IF still_awaiting # {}
                THEN to_val_limbo(w, o, [vlv EXCEPT !.deps = still_awaiting], t)
                ELSE to_int_limbo(w, o),
                limbo, Tail(awaiting_ops), integrated, t)

InLimbo(limbo, o) == o \in DOMAIN limbo

\* app_validation_workflow: app_validation_workflow_inner, the flush and the
\* trigger of integration
app_validation_workflow ==
    /\ \A o \in DOMAIN validation_limbo : validation_limbo[o].num_tries < MaxTries
    /\ LET limbo == validation_limbo
           Drained(o) == InLimbo(limbo, o) /\ app_validation_route(limbo[o]) # "leave"
           ops == SelectSeq(LimboKeys, LAMBDA o :
                        Drained(o) /\ limbo[o].status # "AwaitingProof")
           awaiting_ops ==
                SelectSeq(LimboKeys, LAMBDA o :
                        Drained(o) /\ limbo[o].status = "AwaitingProof")
                \o SelectSeq(ops, LAMBDA o :
                        app_validation_route(limbo[o]) = "awaiting_ops")
           w0 == [validation_limbo |->
                        [o \in { k \in DOMAIN limbo : ~Drained(k) } |-> limbo[o]],
                  integration_limbo |-> integration_limbo,
                  element_pending |-> element_pending,
                  element_validated |-> element_validated]
           w1 == validate_ops(w0, limbo, ops, now)
           w2 == check_awaiting_ops(w1, limbo, awaiting_ops, integrated_dht_ops, now)
       IN  /\ validation_limbo' = w2.validation_limbo
           /\ integration_limbo' = w2.integration_limbo
           /\ element_pending' = w2.element_pending
           /\ element_validated' = w2.element_validated
    /\ trigger' = TRUE
    /\ UNCHANGED << cas, meta, integrated_dht_ops, integration_queue, pc, ws,
                    trigger_publish, stop, producer, now, arrivals >>
    /\ UNCHANGED << cascadeVars, spaceVars, opsVars, restVars >>

\* an op is received and put into the validation limbo
IncomingOp(o) ==
    /\ o \notin DOMAIN validation_limbo
    /\ o \notin DOMAIN integration_limbo
    /\ o \notin DOMAIN integrated_dht_ops
    /\ validation_limbo' = (o :> ValidationLimboValue(o)) @@ validation_limbo
    /\ element_pending' = element_pending \cup {o}
    /\ UNCHANGED << intVars, integration_limbo, element_validated >>
    /\ UNCHANGED << cascadeVars, spaceVars, opsVars, restVars >>

\* system validation of one limbo op: it passes, or it waits for a dependency
SysValidation(o, outcome) ==
    /\ o \in DOMAIN validation_limbo
    /\ \/ validation_limbo[o].status = "Pending"
       \/ validation_limbo[o].status = "AwaitingSysDeps" /\ outcome = "SysValidated"
    /\ validation_limbo' = [validation_limbo EXCEPT ![o].status = outcome]
    /\ UNCHANGED << intVars, integration_limbo, element_pending, element_validated >>
    /\ UNCHANGED << cascadeVars, spaceVars, opsVars, restVars >>

\* integration of the ops of the integration limbo into the integrated-op index
IntegrateLimbo ==
    /\ trigger
    /\ trigger' = FALSE
    /\ integrated_dht_ops' =
            [o \in DOMAIN integration_limbo |->
                [validation_status |-> integration_limbo[o].validation_status,
                 basis |-> NoHash, op |-> o, when_integrated |-> now]]
            @@ integrated_dht_ops
    /\ integration_limbo' = EmptyMap
    /\ UNCHANGED << cas, meta, integration_queue, pc, ws, trigger_publish, stop,
                    producer, now, arrivals >>
    /\ UNCHANGED << validation_limbo, element_pending, element_validated >>
    /\ UNCHANGED << cascadeVars, spaceVars, opsVars, restVars >>

NextVal ==
    \/ \E o \in Range(LimboKeys) : IncomingOp(o)
    \/ \E o \in Range(LimboKeys), outcome \in {"SysValidated", "AwaitingSysDeps"} :
            SysValidation(o, outcome)
    \/ app_validation_workflow
    \/ IntegrateLimbo
    \/ Tick

SpecVal == Init /\ [][NextVal]_vars

\* C4: ops of the validation limbo never skip states.  An op enters the
\* integration limbo only from status SysValidated or AwaitingProof, the
\* statuses AwaitingProof and AwaitingAppDeps are entered only from
\* SysValidated, and an app validation pass leaves every op that is Pending
\* or AwaitingSysDeps exactly as it was and out of the integration limbo.
C4_NoSkippedState ==
    [][\A o \in Range(LimboKeys) :
          /\ (o \in DOMAIN integration_limbo' /\ o \notin DOMAIN integration_limbo)
                => /\ o \in DOMAIN validation_limbo
                   /\ validation_limbo[o].status \in {"SysValidated", "AwaitingProof"}
          /\ (/\ o \in DOMAIN validation_limbo'
              /\ validation_limbo'[o].status \in {"AwaitingProof", "AwaitingAppDeps"})
                => /\ o \in DOMAIN validation_limbo
                   /\ validation_limbo[o].status
                        \in {"SysValidated", validation_limbo'[o].status}
          /\ (/\ app_validation_workflow
              /\ o \in DOMAIN validation_limbo
              /\ validation_limbo[o].status \in {"Pending", "AwaitingSysDeps"})
                => /\ o \in DOMAIN validation_limbo'
                   /\ validation_limbo'[o] = validation_limbo[o]
                   /\ o \notin DOMAIN integration_limbo'
      ]_vars

\* an app validation pass has moved op_b from AwaitingProof to the integration
\* limbo, re-tried op_d, and left a Pending op in the limbo
C4_Witness ==
    /\ "op_b" \in DOMAIN integration_limbo
    /\ "op_d" \in DOMAIN validation_limbo
    /\ validation_limbo["op_d"].status = "AwaitingProof"
    /\ validation_limbo["op_d"].num_tries > 0
    /\ "op_c" \in DOMAIN validation_limbo
    /\ validation_limbo["op_c"].status = "Pending"


(***************************************************************************)
(* The cascade: reads over the vault (cas, meta) and the cache, with the   *)
(* answers of the network merged into the cache.                           *)
(***************************************************************************)
\* number of responses the network gives to one get
MaxResponses == 1

\* the hash of entry content that does not hash to the entry hash of its header
BadEntry == "Ebad"

\* the delete headers on a header
DeletesOf(h) ==
    { d \in Headers : HeaderOf(d).type = "ElementDelete" /\ HeaderOf(d).address = h }

\* the headers that create an entry
CreatesOf(e) == { h \in Headers : HeaderOf(h).type = "EntryCreate" /\ entry_data(h) = e }

\* GetElementResponse::GetHeader: element is a WireElement [header, entry,
\* deleted], deleted being the address of the delete header of its WireDelete
GetHeaderResponse(some, h, e, d) ==
    [kind |-> "GetHeader", some |-> some, header |-> h, entry |-> e, deleted |-> d,
     live_headers |-> {}, deletes |-> {}, entry_hash |-> NoHash]

\* GetElementResponse::GetEntryFull: a RawGetEntryResponse [live_headers,
\* deletes, entry, entry_hash], entry being the hash of the entry content
GetEntryFullResponse(some, live_headers, deletes, e, entry_hash) ==
    [kind |-> "GetEntryFull", some |-> some, header |-> NoHash, entry |-> e,
     deleted |-> NoHash, live_headers |-> live_headers, deletes |-> deletes,
     entry_hash |-> entry_hash]

\* what an authority may answer to a get of a header hash
HeaderResponses(h) ==
    { GetHeaderResponse(FALSE, NoHash, NoHash, NoHash),
      GetEntryFullResponse(FALSE, {}, {}, NoHash, NoHash) }
    \cup { GetHeaderResponse(TRUE, h, e, NoHash) : e \in {entry_data(h), BadEntry} }
    \cup { GetHeaderResponse(TRUE, h, e, d) : e \in {NoHash, entry_data(h)}, d \in DeletesOf(h) }

\* what an authority may answer to a get of an entry hash
EntryResponses(e) ==
    { GetEntryFullResponse(FALSE, {}, {}, NoHash, NoHash),
      GetHeaderResponse(FALSE, NoHash, NoHash, NoHash) }
    \cup { GetEntryFullResponse(TRUE, {h}, {}, e, e) : h \in CreatesOf(e) }
    \cup { GetEntryFullResponse(TRUE, {}, {d}, e, e) :
                d \in UNION { DeletesOf(h) : h \in CreatesOf(e) } }
    \cup { GetEntryFullResponse(TRUE, {h}, DeletesOf(h), BadEntry, e) : h \in CreatesOf(e) }

SeqsUpTo(S, n) == UNION { [1..k -> S] : k \in 0..n }

\* ChainCasBuf::get_element: the element of a stored header
get_element(element_store, h) ==
    IF h \in element_store.headers
    THEN [found |-> TRUE, header |-> h,
          entry |-> IF entry_data(h) \in element_store.entries THEN entry_data(h)
                    ELSE NoHash]
    ELSE NoElement

\* MetadataBuf::get_deletes_on_header
get_deletes_on_header(meta_store, h) ==
    { row[3] : row \in { r \in meta_store : r[1] = "deletes_on_header" /\ r[2] = h } }

\* MetadataBuf::get_headers
get_headers(meta_store, e) ==
    { row[3] : row \in { r \in meta_store : r[1] = "headers_on_entry" /\ r[2] = e } }

\* MetadataBuf::get_dht_status
get_dht_status(meta_store, e) ==
    IF \E h \in get_headers(meta_store, e) : get_deletes_on_header(meta_store, h) = {}
    THEN "Live" ELSE "Dead"

\* MetadataBuf::register_raw_on_entry
register_raw_on_entry(meta_store, e, kind, h) ==
    meta_store \cup { << (IF kind = "Delete" THEN "deletes_on_entry" ELSE "headers_on_entry"),
                         e, h >> }

\* MetadataBuf::register_raw_on_header
register_raw_on_header(meta_store, addr, h) ==
    meta_store \cup { << "deletes_on_header", addr, h >> }

\* Ord of TimedHeaderHash: by timestamp, then by header hash
TimedHeaderHashLess(a, b) ==
    \/ HeaderOf(a).timestamp < HeaderOf(b).timestamp
    \/ HeaderOf(a).timestamp = HeaderOf(b).timestamp /\ HashRank(a) < HashRank(b)

\* the cache of a cascade
Cache(ec, mc) == [element_cache |-> ec, meta_cache |-> mc]

\* Cascade::fetch_element_via_header: the cache after the merge of `results`
fetch_element_via_header(c, hash, results) ==
    LET has_element == { i \in DOMAIN results :
                            results[i].kind = "GetHeader" /\ results[i].some }
        has_delete == { i \in has_element : results[i].deleted # NoHash }
        First(I) == CHOOSE i \in I : \A j \in I : i <= j
    IN  IF has_element = {} THEN c
        ELSE LET we == results[First(has_element)]
                 proof_of_delete == IF has_delete = {} THEN NoHash
                                    ELSE results[First(has_delete)].deleted
                 hash_matches == we.entry # NoHash /\ entry_data(we.header) = we.entry
                 hash_differs == /\ we.entry # NoHash
                                 /\ entry_data(we.header) # NoHash
                                 /\ entry_data(we.header) # we.entry
                 entry == IF hash_matches THEN we.entry ELSE NoHash
                 with_delete ==
                    IF proof_of_delete # NoHash
                    THEN register_raw_on_header(
                            register_raw_on_entry(c.meta_cache, entry, "Delete",
                                                  proof_of_delete),
                            HeaderOf(proof_of_delete).address, proof_of_delete)
                    ELSE c.meta_cache
             IN  IF hash_differs THEN c
                 ELSE Cache(put(c.element_cache, we.header, entry),
                            IF entry # NoHash
                            THEN register_raw_on_entry(with_delete, entry, "NewEntry",
                                                       we.header)
                            ELSE c.meta_cache)

\* Cascade::fetch_element_via_entry: the cache after the merge of `elements`,
\* which are handled one after the other
RECURSIVE fetch_element_via_entry(_, _, _, _)
fetch_element_via_entry(c, maybe_entry_hashed, hash, elements) ==
    IF elements = << >> THEN c
    ELSE LET raw == Head(elements)
             entry_hashed == IF maybe_entry_hashed # NoHash THEN maybe_entry_hashed
                             ELSE raw.entry
             RECURSIVE put_headers(_, _)
             put_headers(cc, live) ==
                IF live = {} THEN cc
                ELSE LET h == CHOOSE x \in live : TRUE
                     IN  put_headers(Cache(put(cc.element_cache, h, entry_hashed),
                                           register_header(cc.meta_cache, h)),
                                     live \ {h})
             RECURSIVE put_deletes(_, _)
             put_deletes(mc, dels) ==
                IF dels = {} THEN mc
                ELSE LET d == CHOOSE x \in dels : TRUE
                     IN  put_deletes(
                            register_raw_on_entry(
                                register_raw_on_header(mc, HeaderOf(d).address, d),
                                raw.entry_hash, "Delete", d),
                            dels \ {d})
         IN  IF raw.kind = "GetEntryFull" /\ raw.some
             THEN IF raw.entry_hash # entry_hashed /\ raw.entry_hash = hash
                  THEN fetch_element_via_entry(c, NoHash, hash, Tail(elements))
                  ELSE LET cc == put_headers(c, raw.live_headers)
                       IN  fetch_element_via_entry(
                                Cache(cc.element_cache,
                                      put_deletes(cc.meta_cache, raw.deletes)),
                                entry_hashed, hash, Tail(elements))
             ELSE fetch_element_via_entry(c, maybe_entry_hashed, hash, Tail(elements))

\* Cascade::get_element_local_raw: the vault, then the cache
get_element_local_raw(c, h) ==
    IF get_element(cas, h).found THEN get_element(cas, h)
    ELSE get_element(c.element_cache, h)

\* dht_get_header with the tombstone looked up in the meta cache only
dht_get_header_CacheOnly(c, header_hash, results) ==
    IF get_deletes_on_header(c.meta_cache, header_hash) # {}
    THEN [cache |-> c, result |-> NoElement]
    ELSE LET fetched == fetch_element_via_header(c, header_hash, results)
             delete_on_header ==
                get_deletes_on_header(fetched.meta_cache, header_hash) = {}
         IN  [cache |-> fetched,
              result |-> IF delete_on_header THEN NoElement
                         ELSE get_element_local_raw(fetched, header_hash)]

\* Cascade::dht_get_header: [cache, result]
dht_get_header(c, header_hash, results) ==
    IF get_deletes_on_header(c.meta_cache, header_hash) # {}
    THEN [cache |-> c, result |-> NoElement]
    ELSE IF get_deletes_on_header(meta, header_hash) # {}
    THEN [cache |-> c, result |-> NoElement]
    ELSE LET fetched == fetch_element_via_header(c, header_hash, results)
             delete_on_header ==
                get_deletes_on_header(fetched.meta_cache, header_hash) = {}
         IN  [cache |-> fetched,
              result |-> IF delete_on_header THEN NoElement
                         ELSE get_element_local_raw(fetched, header_hash)]


\* the minimum taken over the header hashes alone
oldest_live_header_ByHash(meta_store, e) ==
    LET live == { h \in get_headers(meta_store, e) :
                    get_deletes_on_header(meta_store, h) = {} }
    IN  CHOOSE h \in live : \A g \in live : HashRank(h) <= HashRank(g)

\* `.filter_map(no delete on the header in the meta cache).min()`
oldest_live_header(meta_store, e) ==
    LET live == { h \in get_headers(meta_store, e) :
                    get_deletes_on_header(meta_store, h) = {} }
    IN  CHOOSE h \in live : \A g \in live : g = h \/ TimedHeaderHashLess(h, g)

\* the search answered from the vault and its metadata, without the fetch,
\* when the vault holds the entry and headers on it
dht_get_entry_search_LocalFirst(c, entry_hash, elements) ==
    IF entry_hash \in cas.entries /\ get_headers(meta, entry_hash) # {}
    THEN IF get_dht_status(meta, entry_hash) = "Live"
         THEN LET h == oldest_live_header(meta, entry_hash)
              IN  [cache |-> c, search |-> "Found", header |-> h,
                   element |-> get_element_local_raw(c, h)]
         ELSE [cache |-> c, search |-> "NotInCascade", header |-> NoHash,
               element |-> NoElement]
    ELSE LET fetched == fetch_element_via_entry(c, NoHash, entry_hash, elements)
         IN  IF get_dht_status(fetched.meta_cache, entry_hash) = "Live"
             THEN LET h == oldest_live_header(fetched.meta_cache, entry_hash)
                      element == get_element_local_raw(fetched, h)
                  IN  [cache |-> fetched,
                       search |-> IF element.found THEN "Found" ELSE "Continue",
                       header |-> h, element |-> element]
             ELSE [cache |-> fetched, search |-> "NotInCascade", header |-> NoHash,
                   element |-> NoElement]

\* Cascade::dht_get_entry up to the search of the cascade:
\* [cache, search, header, element]
dht_get_entry_search(c, entry_hash, elements) ==
    LET fetched == fetch_element_via_entry(c, NoHash, entry_hash, elements)
    IN  IF get_dht_status(fetched.meta_cache, entry_hash) = "Live"
        THEN LET h == oldest_live_header(fetched.meta_cache, entry_hash)
                 element == get_element_local_raw(fetched, h)
             IN  [cache |-> fetched,
                  search |-> IF element.found THEN "Found" ELSE "Continue",
                  header |-> h, element |-> element]
        ELSE [cache |-> fetched, search |-> "NotInCascade", header |-> NoHash,
              element |-> NoElement]

\* the hashes the cascade is asked for
GetHeaderHashes == {"H1", "D1"}
GetEntryHashes == {"E1"}

\* the fetched elements put into the vault
DhtGetHeader_IntoVault(header_hash, results) ==
    /\ LET r == dht_get_header(Cache(element_cache, meta_cache), header_hash, results)
       IN  /\ cas' = r.cache.element_cache
           /\ meta_cache' = r.cache.meta_cache
           /\ get_result' = [op |-> "dht_get_header", hash |-> header_hash,
                             result |-> r.result, call |-> 1 - get_result.call]
    /\ UNCHANGED << meta, integrated_dht_ops, integration_queue, pc, ws, trigger,
                    trigger_publish, stop, producer, now, arrivals >>
    /\ UNCHANGED << valVars, element_cache, spaceVars, opsVars, restVars >>

\* Cascade::dht_get of a header hash
DhtGetHeader(header_hash, results) ==
    /\ LET r == dht_get_header(Cache(element_cache, meta_cache), header_hash, results)
       IN  /\ element_cache' = r.cache.element_cache
           /\ meta_cache' = r.cache.meta_cache
           /\ get_result' = [op |-> "dht_get_header", hash |-> header_hash,
                             result |-> r.result, call |-> 1 - get_result.call]
    /\ UNCHANGED << intVars, valVars, spaceVars, opsVars, restVars >>

\* Cascade::dht_get of an entry hash
DhtGetEntry(entry_hash, elements) ==
    /\ LET s == dht_get_entry_search(Cache(element_cache, meta_cache), entry_hash, elements)
       IN  IF s.search = "Continue"
           THEN \E results \in SeqsUpTo(HeaderResponses(s.header), MaxResponses) :
                    LET r == dht_get_header(s.cache, s.header, results)
                    IN  /\ element_cache' = r.cache.element_cache
                        /\ meta_cache' = r.cache.meta_cache
                        /\ get_result' = [op |-> "dht_get_entry", hash |-> entry_hash,
                                          result |-> r.result, call |-> 1 - get_result.call]
           ELSE /\ element_cache' = s.cache.element_cache
                /\ meta_cache' = s.cache.meta_cache
                /\ get_result' = [op |-> "dht_get_entry", hash |-> entry_hash,
                                  result |-> s.element, call |-> 1 - get_result.call]
    /\ UNCHANGED << intVars, valVars, spaceVars, opsVars, restVars >>

\* the ops this cell integrates into its vault while the cascade is in use
VaultOps ==
    { DhtOp("StoreEntry", "H1", "E1"), DhtOp("StoreEntry", "H2", "E1"),
      DhtOp("RegisterDeletedBy", "D1", NoHash),
      DhtOp("RegisterDeletedEntryHeader", "D2", NoHash) }

\* a pass of the integration workflow over one op, with its commit
IntegrateIntoVault(op) ==
    /\ DhtOpHash(op) \notin DOMAIN integrated_dht_ops
    /\ LET r == integrate_single_dht_op(cas, meta, IntegrationQueueValue(op), TRUE, now)
       IN  /\ r.outcome = "Integrated"
           /\ cas' = r.element_store
           /\ meta' = r.meta_store
           /\ integrated_dht_ops' = (DhtOpHash(op) :> r.value) @@ integrated_dht_ops
    /\ UNCHANGED << integration_queue, pc, ws, trigger, trigger_publish, stop,
                    producer, now, arrivals >>
    /\ UNCHANGED << valVars, cascadeVars, spaceVars, opsVars, restVars >>

\* the fold without the look-up of the deletes seen so far: a create is
\* inserted whatever was deleted before it
fold_InsertAlways(state, shh) ==
    IF HeaderOf(shh).type = "EntryCreate"
    THEN [state EXCEPT !.creates = @ \cup {shh}]
    ELSE [creates |-> state.creates \ {HeaderOf(shh).address},
          deletes |-> state.deletes \cup {HeaderOf(shh).address}]

\* GetEntryQuery::fold over one header of the create and delete queries
fold(state, shh) ==
    IF HeaderOf(shh).type = "EntryCreate"
    THEN IF shh \notin state.deletes
         THEN [state EXCEPT !.creates = @ \cup {shh}]
         ELSE state
    ELSE [creates |-> state.creates \ {HeaderOf(shh).address},
          deletes |-> state.deletes \cup {HeaderOf(shh).address}]

RECURSIVE fold_all(_, _)
fold_all(state, rows) ==
    IF rows = << >> THEN state ELSE fold_all(fold(state, Head(rows)), Tail(rows))

\* the rows of GetEntryQuery::create_query and delete_query: the headers of
\* the valid StoreEntry and RegisterDeletedEntryHeader ops on the entry
query_rows(entry_hash) ==
    { k[2] : k \in { x \in DOMAIN integrated_dht_ops :
                        /\ x[1] \in {"StoreEntry", "RegisterDeletedEntryHeader"}
                        /\ integrated_dht_ops[x].basis = entry_hash
                        /\ integrated_dht_ops[x].validation_status = "Valid" } }

\* the orders in which the rows of a set may be folded
Orders(S) == { f \in [1..Cardinality(S) -> S] : \A x \in S : \E i \in DOMAIN f : f[i] = x }

\* GetEntryQuery: the fold over the rows and render, which takes the first
\* header of the iteration over the hash map of the creates
GetEntryQuery(entry_hash, rows, header) ==
    /\ LET state == fold_all([creates |-> {}, deletes |-> {}], rows)
       IN  IF state.creates = {}
           THEN get_result' = [op |-> "GetEntryQuery", hash |-> entry_hash,
                               result |-> NoElement, call |-> 1 - get_result.call]
           ELSE /\ header \in state.creates
                /\ get_result' = [op |-> "GetEntryQuery", hash |-> entry_hash,
                                  result |-> [found |-> TRUE, header |-> header,
                                              entry |-> entry_data(header)],
                                  call |-> 1 - get_result.call]
    /\ UNCHANGED << intVars, valVars, element_cache, meta_cache, spaceVars, opsVars, restVars >>

NextCascade ==
    \/ \E op \in VaultOps : IntegrateIntoVault(op)
    \/ \E h \in GetHeaderHashes :
            \E results \in SeqsUpTo(HeaderResponses(h), MaxResponses) :
                DhtGetHeader(h, results)
    \/ \E e \in GetEntryHashes :
            \E elements \in SeqsUpTo(EntryResponses(e), MaxResponses) :
                DhtGetEntry(e, elements)
    \/ \E e \in GetEntryHashes :
            \E rows \in Orders(query_rows(e)), header \in {NoHash} \cup CreatesOf(e) :
                GetEntryQuery(e, rows, header)

SpecCascade == Init /\ [][NextCascade]_vars


(***************************************************************************)
(* Properties of the cascade.                                              *)
(***************************************************************************)
\* a delete of the header is in the vault metadata or in the cache metadata
DeleteKnown(h) ==
    \E d \in Headers : << "deletes_on_header", h, d >> \in (meta \cup meta_cache)

\* the step is a call of the cascade
IsCall(op) == get_result'.call # get_result.call /\ get_result'.op = op

\* C8: the tombstone of get(header_hash).  A get of a header for which a
\* delete is known in the vault metadata or in the cache metadata returns
\* None, whatever the network answers, and a known delete stays known, so
\* every later get of that header returns None as well.
C8_Tombstone ==
    /\ [][(IsCall("dht_get_header") /\ DeleteKnown(get_result'.hash))
            => ~get_result'.result.found]_vars
    /\ [][\A h \in Headers : DeleteKnown(h) => DeleteKnown(h)']_vars

\* a get of H1 has returned None while the element of H1 is in the vault and
\* in the cache, the delete D1 being known in the vault metadata only
C8_Witness ==
    /\ get_result.op = "dht_get_header" /\ get_result.hash = "H1"
    /\ ~get_result.result.found
    /\ << "deletes_on_header", "H1", "D1" >> \in meta
    /\ << "deletes_on_header", "H1", "D1" >> \notin meta_cache
    /\ "H1" \in cas.headers /\ "H1" \in element_cache.headers

\* the element the network holds for a header
ElementOf(h) == [found |-> TRUE, header |-> h, entry |-> entry_data(h)]

\* C9: get(header_hash) with no delete of the header known locally, answered
\* by the network with the element and no delete on it, returns that element.
C9_GetHeaderReturnsFetched ==
    [][\A h \in GetHeaderHashes :
          (/\ ~DeleteKnown(h)
           /\ DhtGetHeader(h, << GetHeaderResponse(TRUE, h, entry_data(h), NoHash) >>))
          => get_result'.result = ElementOf(h)]_vars

\* the headers on an entry that have no delete on them, in a metadata store
LiveHeaders(meta_store, e) ==
    { h \in Headers : /\ << "headers_on_entry", e, h >> \in meta_store
                      /\ ~\E d \in Headers : << "deletes_on_header", h, d >> \in meta_store }

\* the create headers of the valid StoreEntry ops on an entry that no valid
\* RegisterDeletedEntryHeader op deletes
QueryLive(e) ==
    { h \in CreatesOf(e) :
        /\ << "StoreEntry", h >> \in DOMAIN integrated_dht_ops
        /\ ~\E d \in DeletesOf(h) :
                << "RegisterDeletedEntryHeader", d >> \in DOMAIN integrated_dht_ops }

\* the header with the smallest timestamp, the smallest hash among equals
Oldest(S) ==
    CHOOSE h \in S : \A g \in S \ {h} :
        \/ HeaderOf(h).timestamp < HeaderOf(g).timestamp
        \/ HeaderOf(h).timestamp = HeaderOf(g).timestamp /\ HashRank(h) < HashRank(g)

\* the cascade's get of an entry gives the oldest live header of the merged
\* cache metadata, or None when there is none
CascadeGivesOldest ==
    IsCall("dht_get_entry") =>
        LET live == LiveHeaders(meta_cache', get_result'.hash)
        IN  IF live = {} THEN ~get_result'.result.found
            ELSE /\ get_result'.result.found
                 /\ get_result'.result.header = Oldest(live)
                 /\ get_result'.result.entry = get_result'.hash

LinkTag(h) ==
    CASE h = "L1" -> "t1" [] h = "L2" -> "t1" [] h = "L3" -> "t2" [] OTHER -> NoHash

\* the target of a LinkAdd
LinkTarget(h) ==
    CASE h = "L1" -> "T1" [] h = "L2" -> "T2" [] h = "L3" -> "T1" [] OTHER -> NoHash

\* LinkMetaVal::into_link: the Link of a LinkAdd
into_link(h) ==
    [target |-> LinkTarget(h), timestamp |-> HeaderOf(h).timestamp, tag |-> LinkTag(h)]

LinkBases == {"E1"}
LinkTags == {"t1", "t2"}

\* the link adds and the link removes under a key
LinkAddsOf(base, tag) ==
    { h \in Headers : /\ HeaderOf(h).type = "LinkAdd"
                      /\ HeaderOf(h).base_address = base /\ LinkTag(h) = tag }

LinkRemovesOf(base, tag) ==
    { h \in Headers : /\ HeaderOf(h).type = "LinkRemove"
                      /\ HeaderOf(h).base_address = base
                      /\ LinkTag(HeaderOf(h).address) = tag }

\* GetLinksResponse { link_adds, link_removes }
GetLinksResponse(link_adds, link_removes) ==
    [link_adds |-> link_adds, link_removes |-> link_removes]

\* the answers of the authorities of a key
LinksResponses(base, tag) ==
    { GetLinksResponse(a, r) : a \in SUBSET LinkAddsOf(base, tag),
                               r \in SUBSET LinkRemovesOf(base, tag) }

\* the puts of the headers of a response into the element cache
RECURSIVE put_all(_, _)
put_all(element_store, hs) ==
    IF hs = {} THEN element_store
    ELSE LET h == CHOOSE x \in hs : TRUE
         IN  put_all(put(element_store, h, NoHash), hs \ {h})

\* the link ops of a response registered in the cache metadata
RECURSIVE add_links(_, _)
add_links(meta_store, hs) ==
    IF hs = {} THEN meta_store
    ELSE LET h == CHOOSE x \in hs : TRUE
         IN  add_links(add_link(meta_store, h), hs \ {h})

RECURSIVE remove_links(_, _)
remove_links(meta_store, hs) ==
    IF hs = {} THEN meta_store
    ELSE LET h == CHOOSE x \in hs : TRUE
         IN  remove_links(remove_link(meta_store, h), hs \ {h})

\* Cascade::fetch_links: for every response the link adds, then the link
\* removes
RECURSIVE fetch_links(_, _)
fetch_links(c, results) ==
    IF results = << >> THEN c
    ELSE LET links == Head(results)
             adds == Cache(put_all(c.element_cache, links.link_adds),
                           add_links(c.meta_cache, links.link_adds))
             removes == Cache(put_all(adds.element_cache, links.link_removes),
                              remove_links(adds.meta_cache, links.link_removes))
         IN  fetch_links(removes, Tail(results))

\* Op::Add(link_add_hash, ..) and Op::Remove(link_add_hash) under a key of
\* the links metadata
links_meta(meta_store, base, tag) ==
    { [op |-> "Add", link_add_hash |-> r[3]] :
        r \in { x \in meta_store : x[1] = "link_add" /\ x[2] = base /\ LinkTag(x[3]) = tag } }
    \cup
    { [op |-> "Remove", link_add_hash |-> r[3]] :
        r \in { x \in meta_store : x[1] = "link_remove" /\ x[2] = base /\ LinkTag(x[3]) = tag } }

\* a remove taken out of the results as the iteration meets it
RECURSIVE get_links_RemoveInline(_, _, _)
get_links_RemoveInline(ops, results, removes) ==
    IF ops = << >> THEN results
    ELSE LET op == Head(ops)
         IN  IF op.op = "Add"
             THEN get_links_RemoveInline(Tail(ops), results \cup {op.link_add_hash}, removes)
             ELSE get_links_RemoveInline(Tail(ops), results \ {op.link_add_hash}, removes)

\* get_links: the iteration over the ops of the key collects the adds in
\* `results` and the removes in `removes`, then every remove is taken out
\* of the results
RECURSIVE get_links(_, _, _)
get_links(ops, results, removes) ==
    IF ops = << >> THEN results \ removes
    ELSE LET op == Head(ops)
         IN  IF op.op = "Add"
             THEN get_links(Tail(ops), results \cup {op.link_add_hash}, removes)
             ELSE get_links(Tail(ops), results, removes \cup {op.link_add_hash})

\* Cascade::dht_get_links: the links are fetched into the cache, then read
\* from the cache metadata; `ops` is the iteration over the ops of the key
DhtGetLinks(base, tag, results) ==
    /\ LET fetched == fetch_links(Cache(element_cache, meta_cache), results)
       IN  /\ element_cache' = fetched.element_cache
           /\ meta_cache' = fetched.meta_cache
           /\ \E ops \in Orders(links_meta(fetched.meta_cache, base, tag)) :
                get_result' = [op |-> "dht_get_links", hash |-> base, tag |-> tag,
                               result |-> NoElement,
                               links |-> { into_link(h) : h \in get_links(ops, {}, {}) },
                               call |-> 1 - get_result.call]
    /\ UNCHANGED << intVars, valVars, spaceVars, opsVars, restVars >>

\* the link ops this cell integrates into its vault
LinkVaultOps ==
    { DhtOp("RegisterAddLink", "L1", NoHash), DhtOp("RegisterAddLink", "L2", NoHash),
      DhtOp("RegisterRemoveLink", "R1", NoHash) }

NextLinks ==
    \/ \E op \in LinkVaultOps : IntegrateIntoVault(op)
    \/ \E base \in LinkBases, tag \in LinkTags :
            \E results \in SeqsUpTo(LinksResponses(base, tag), MaxResponses) :
                DhtGetLinks(base, tag, results)

SpecLinks == Init /\ [][NextLinks]_vars

\* the three gets of the cascade next to the integration into the vault
FrameVaultOps ==
    { DhtOp("StoreEntry", "H1", "E1"), DhtOp("RegisterDeletedBy", "D1", NoHash),
      DhtOp("RegisterAddLink", "L1", NoHash) }

NextFrame ==
    \/ \E op \in FrameVaultOps : IntegrateIntoVault(op)
    \/ \E results \in SeqsUpTo(HeaderResponses("H1"), MaxResponses) :
            DhtGetHeader("H1", results)
    \/ \E elements \in SeqsUpTo(EntryResponses("E1"), MaxResponses) :
            DhtGetEntry("E1", elements)
    \/ \E results \in SeqsUpTo(LinksResponses("E1", "t1"), MaxResponses) :
            DhtGetLinks("E1", "t1", results)

SpecFrame == Init /\ [][NextFrame]_vars


(***************************************************************************)
(* Properties of the cascade over the vault and the cache.                 *)
(***************************************************************************)
\* the step is a get of the cascade: by header, by entry or of the links
IsGet == IsCall("dht_get_header") \/ IsCall("dht_get_entry") \/ IsCall("dht_get_links")

\* C11: the cascade never writes to the vault.  A get by header, a get by
\* entry and a get of the links, with their fetch steps, leave the element
\* vault, the vault metadata and every other store of the cell unchanged:
\* what they write goes to the element cache and to the cache metadata.
C11_VaultFrame ==
    [][IsGet => /\ cas' = cas /\ meta' = meta
                /\ integrated_dht_ops' = integrated_dht_ops
                /\ UNCHANGED << intVars, valVars, spaceVars, opsVars, restVars >>]_vars

\* a get of the links has been answered while the cache holds the element
\* of H1 and the link L2 the vault does not hold, next to a vault that holds
\* H1
C11_Witness ==
    /\ get_result.op = "dht_get_links"
    /\ {"H1", "L2"} \subseteq element_cache.headers
    /\ "H1" \in cas.headers /\ "L2" \notin cas.headers
    /\ << "link_add", "E1", "L2" >> \in meta_cache
    /\ << "link_add", "E1", "L2" >> \notin meta

\* Cascade::dht_get of an entry hash as a function of the cache and of the
\* answers of the network: [cache, result]
dht_get_entry(c, entry_hash, elements, results) ==
    LET s == dht_get_entry_search(c, entry_hash, elements)
    IN  IF s.search = "Continue"
        THEN dht_get_header(s.cache, s.header, results)
        ELSE [cache |-> s.cache, result |-> s.element]

\* two consecutive gets of a header with the same answers of the network,
\* the second on the cache the first has left, return the same result
HeaderGetDeterministic ==
    \A h \in GetHeaderHashes :
        \A results \in SeqsUpTo(HeaderResponses(h), MaxResponses) :
            LET first == dht_get_header(Cache(element_cache, meta_cache), h, results)
                second == dht_get_header(first.cache, h, results)
            IN  first.result = second.result

\* the same of two consecutive gets of an entry
EntryGetDeterministic ==
    \A e \in GetEntryHashes :
        \A elements \in SeqsUpTo(EntryResponses(e), MaxResponses) :
            \A results \in SeqsUpTo(UNION { HeaderResponses(h) : h \in CreatesOf(e) },
                                    MaxResponses) :
                LET first == dht_get_entry(Cache(element_cache, meta_cache), e,
                                           elements, results)
                    second == dht_get_entry(first.cache, e, elements, results)
                IN  first.result = second.result

\* C12: determinism of the cascade.  In every state, cold cache included,
\* two consecutive calls get(h) with the same answers of the network and no
\* other event between them return the same result, the second call running
\* on the cache the first call has populated.
C12_Deterministic == HeaderGetDeterministic /\ EntryGetDeterministic

\* C13: the cascade prefers the vault.  A get of a header the vault holds
\* the element of, no delete of the header being known once the answers of
\* the network are merged, returns the element of the vault, whatever
\* element of that header the network has answered and the cache has
\* recorded.
C13_PrefersVault ==
    [][\A h \in GetHeaderHashes :
          (/\ IsCall("dht_get_header") /\ get_result'.hash = h
           /\ h \in cas.headers
           /\ ~DeleteKnown(h)')
          => get_result'.result = get_element(cas, h)]_vars

\* the vault holds the entry and its metadata hold headers on it: the local
\* status of the entry is Live or Dead
LocallyDecisive(e) == e \in cas.entries /\ get_headers(meta, e) # {}

LiveLinkAdds(meta_store, base, tag) ==
    { h \in LinkAddsOf(base, tag) :
        /\ << "link_add", base, h >> \in meta_store
        /\ << "link_remove", base, h >> \notin meta_store }

\* C15: get_links(base, tag) returns exactly the links of the link adds on
\* that base and tag that no known link remove refers to, the known adds
\* and removes being those merged into the cache metadata, in whatever
\* order they were merged and are read.
C15_GetLinks ==
    [][\A base \in LinkBases, tag \in LinkTags :
          (IsCall("dht_get_links") /\ get_result'.hash = base /\ get_result'.tag = tag)
          => get_result'.links =
                { into_link(h) : h \in LiveLinkAdds(meta_cache', base, tag) }]_vars

\* after the adds L1 and L2 and the remove of L1 were merged, a get of the
\* links of their key has returned the link of L2 alone
C15_Witness ==
    /\ get_result.op = "dht_get_links"
    /\ get_result.hash = "E1" /\ get_result.tag = "t1"
    /\ { << "link_add", "E1", "L1" >>, << "link_add", "E1", "L2" >>,
         << "link_remove", "E1", "L1" >> } \subseteq meta_cache
    /\ get_result.links = { into_link("L2") }


(***************************************************************************)
(* The space manager.  A Space is the bundle of stores of one DNA; its     *)
(* handles are clones that share the stores, so a Space is known by the    *)
(* serial number of its construction.  The stores of a Space hold the ops  *)
(* in the validation limbo, the integrated ops and the ops of the          *)
(* countersigning workspace.                                               *)
(***************************************************************************)
\* Space::new
Space_new(id) ==
    [id |-> id, limbo |-> {}, integrated |-> {}, countersigning_workspace |-> {}]

\* the closure under share_mut that finds the entry vacant whatever the map
\* holds
share_mut_Vacant(m, n, dna_hash, db_ok) ==
    IF db_ok
    THEN [map |-> (dna_hash :> Space_new(n[dna_hash] + 1)) @@ m,
          space_new |-> [n EXCEPT ![dna_hash] = @ + 1], ok |-> TRUE]
    ELSE [map |-> m, space_new |-> n, ok |-> FALSE]

\* get_or_create_space_ref: the closure under share_mut.  An occupied entry
\* is handed out; a vacant one is filled with a new Space unless Space::new
\* fails to open a database (`db_ok`).
share_mut(m, n, dna_hash, db_ok) ==
    IF dna_hash \in DOMAIN m
    THEN [map |-> m, space_new |-> n, ok |-> TRUE]
    ELSE IF db_ok
    THEN [map |-> (dna_hash :> Space_new(n[dna_hash] + 1)) @@ m,
          space_new |-> [n EXCEPT ![dna_hash] = @ + 1], ok |-> TRUE]
    ELSE [map |-> m, space_new |-> n, ok |-> FALSE]

\* get_or_create_space_ref run by one task without another in between
get_or_create_space_ref(m, n, dna_hash, db_ok) ==
    IF dna_hash \in DOMAIN m
    THEN [map |-> m, space_new |-> n, ok |-> TRUE]
    ELSE share_mut(m, n, dna_hash, db_ok)

\* get_or_create_space_ref, first half: the look-up under share_ref
ShareRef(t, dna_hash) ==
    /\ threads[t].pc = "idle"
    /\ threads' = [threads EXCEPT ![t] =
            IF dna_hash \in DOMAIN map
            THEN [pc |-> "idle", dna |-> dna_hash, handle |-> map[dna_hash].id]
            ELSE [pc |-> "share_mut", dna |-> dna_hash, handle |-> 0]]
    /\ UNCHANGED << map, queue_consumer_map, space_new, gossip_out, published >>
    /\ UNCHANGED << intVars, valVars, cascadeVars, opsVars, restVars >>

\* get_or_create_space_ref, second half: the entry under share_mut; the
\* handle of a call that fails is -1
ShareMut(t, db_ok) ==
    /\ threads[t].pc = "share_mut"
    /\ LET r == share_mut(map, space_new, threads[t].dna, db_ok)
       IN  /\ map' = r.map
           /\ space_new' = r.space_new
           /\ threads' = [threads EXCEPT ![t] =
                    [pc |-> "idle", dna |-> threads[t].dna,
                     handle |-> IF r.ok THEN r.map[threads[t].dna].id ELSE -1]]
    /\ UNCHANGED << queue_consumer_map, gossip_out, published >>
    /\ UNCHANGED << intVars, valVars, cascadeVars, opsVars, restVars >>

NextSpaces ==
    \/ \E t \in Threads, dna_hash \in DnaHashes : ShareRef(t, dna_hash)
    \/ \E t \in Threads, db_ok \in BOOLEAN : ShareMut(t, db_ok)

SpecSpaces == Init /\ [][NextSpaces]_vars

\* C16: a Space is constructed lazily and at most once per DNA.  Whatever
\* the interleaving of the first references of the tasks, no DNA has more
\* than one Space constructed, the map holds a Space for a DNA exactly when
\* one was constructed, and every task that was handed a Space of a DNA
\* holds the one Space of the map.
C16_OneSpacePerDna ==
    /\ \A d \in DnaHashes :
            /\ space_new[d] <= 1
            /\ d \in DOMAIN map <=> space_new[d] = 1
    /\ \A t \in Threads :
            threads[t].handle > 0
                => /\ threads[t].dna \in DOMAIN map
                   /\ map[threads[t].dna].id = threads[t].handle

\* a task holds the Space of dna1 while another task, which has not found
\* the Space under share_ref, is about to enter share_mut for dna1
C16_Witness ==
    \E t, u \in Threads :
        /\ t # u
        /\ threads[t].dna = "dna1" /\ threads[t].handle = 1
        /\ threads[u].pc = "share_mut" /\ threads[u].dna = "dna1"
        /\ "dna1" \in DOMAIN map


(***************************************************************************)
(* The gossip handlers of the space manager: fetch_op_data by hashes and   *)
(* by regions, and publish.                                                *)
(***************************************************************************)
\* the bound of the bytes of the ops held in memory by a fetch
OPS_IN_MEMORY_BOUND_BYTES == 3000000

\* the longest list of hashes or of regions of a query
MaxQuery == 2

\* the publish events received
MaxPublish == 2

\* the ops the peers publish and fetch
SpaceOps == {"o1", "o2", "o3"}

\* the row of an op in the join of the DhtOp, Header and Entry tables: o1
\* and o2 carry a public entry of two megabytes, o3 is the StoreElement of a
\* header with a private entry
OpRow(hash) ==
    CASE hash = "o1" -> [dht_type |-> "StoreEntry", visibility |-> "Public",
                         header_size |-> 1000, entry_size |-> 1999000,
                         storage_center_loc |-> 0, timestamp |-> 0]
      [] hash = "o2" -> [dht_type |-> "StoreEntry", visibility |-> "Public",
                         header_size |-> 1000, entry_size |-> 1999000,
                         storage_center_loc |-> 1, timestamp |-> 0]
      [] hash = "o3" -> [dht_type |-> "StoreElement", visibility |-> "Private",
                         header_size |-> 1000, entry_size |-> 500000,
                         storage_center_loc |-> 0, timestamp |-> 1]

\* the entry attached whatever its visibility
fetch_by_hashes_AnyVisibility(space, op_hashes, out, total_bytes) ==
    LET RECURSIVE go(_, _, _)
        go(hashes, acc, total) ==
            IF hashes = << >> THEN acc
            ELSE LET hash == Head(hashes)
                 IN  IF hash \notin space.integrated
                     THEN go(Tail(hashes), acc, total)
                     ELSE LET row == OpRow(hash)
                              bytes == row.header_size + row.entry_size
                              r == [hash |-> hash, dht_type |-> row.dht_type,
                                    entry |-> row.entry_size > 0]
                          IN  IF total + bytes > OPS_IN_MEMORY_BOUND_BYTES
                              THEN Append(acc, r)
                              ELSE go(Tail(hashes), Append(acc, r), total + bytes)
    IN  go(op_hashes, out, total_bytes)

\* handle_fetch_op_data_by_hashes: the loop over the hashes under the read
\* transaction.  A hash with no integrated op is skipped; the entry is
\* attached only under a header whose entry type is public; the loop breaks
\* once the bytes counted exceed the bound.
RECURSIVE fetch_by_hashes(_, _, _, _)
fetch_by_hashes(space, op_hashes, out, total_bytes) ==
    IF op_hashes = << >> THEN out
    ELSE LET hash == Head(op_hashes)
         IN  IF hash \notin space.integrated
             THEN fetch_by_hashes(space, Tail(op_hashes), out, total_bytes)
             ELSE LET row == OpRow(hash)
                      bytes == row.header_size + row.entry_size
                      r == [hash |-> hash, dht_type |-> row.dht_type,
                            entry |-> row.visibility = "Public" /\ row.entry_size > 0]
                  IN  IF total_bytes + bytes > OPS_IN_MEMORY_BOUND_BYTES
                      THEN Append(out, r)
                      ELSE fetch_by_hashes(space, Tail(op_hashes), Append(out, r),
                                           total_bytes + bytes)

\* RegionBounds { x, t }
RegionBounds(x0, x1, t0, t1) == [x |-> << x0, x1 >>, t |-> << t0, t1 >>]

Regions == { RegionBounds(0, 0, 0, 1), RegionBounds(0, 1, 0, 0) }

\* FETCH_OPS_BY_REGION: the integrated ops within the bounds of a region
fetch_ops_by_region(space, bounds) ==
    { hash \in space.integrated :
        /\ bounds.x[1] <= OpRow(hash).storage_center_loc
        /\ OpRow(hash).storage_center_loc <= bounds.x[2]
        /\ bounds.t[1] <= OpRow(hash).timestamp
        /\ OpRow(hash).timestamp <= bounds.t[2] }

\* map_sql_dht_op_common: the op of a row, its entry attached when public
map_sql_dht_op_common(hash) ==
    [hash |-> hash, dht_type |-> OpRow(hash).dht_type,
     entry |-> OpRow(hash).visibility = "Public" /\ OpRow(hash).entry_size > 0]

\* the rows of a statement, one after the other
RECURSIVE Rows(_)
Rows(hashes) ==
    IF hashes = {} THEN << >>
    ELSE LET hash == CHOOSE x \in hashes : TRUE
         IN  << map_sql_dht_op_common(hash) >> \o Rows(hashes \ {hash})

\* handle_fetch_op_data_by_regions: the ops of every region, flattened
RECURSIVE fetch_by_regions(_, _)
fetch_by_regions(space, regions) ==
    IF regions = << >> THEN << >>
    ELSE Rows(fetch_ops_by_region(space, Head(regions)))
            \o fetch_by_regions(space, Tail(regions))

\* Spaces::handle_fetch_op_data, FetchOpDataQuery::Hashes
HandleFetchOpDataByHashes(dna_hash, op_hashes, db_ok) ==
    /\ LET r == get_or_create_space_ref(map, space_new, dna_hash, db_ok)
       IN  /\ map' = r.map
           /\ space_new' = r.space_new
           /\ gossip_out' =
                [op |-> "fetch_op_data_by_hashes", dna |-> dna_hash,
                 countersigning_session |-> FALSE, ops |-> << >>,
                 out |-> IF r.ok THEN fetch_by_hashes(r.map[dna_hash], op_hashes, << >>, 0)
                         ELSE << >>,
                 ok |-> r.ok, call |-> 1 - gossip_out.call]
    /\ UNCHANGED << queue_consumer_map, threads, published >>
    /\ UNCHANGED << intVars, valVars, cascadeVars, opsVars, restVars >>

\* Spaces::handle_fetch_op_data, FetchOpDataQuery::Regions
HandleFetchOpDataByRegions(dna_hash, regions, db_ok) ==
    /\ LET r == get_or_create_space_ref(map, space_new, dna_hash, db_ok)
       IN  /\ map' = r.map
           /\ space_new' = r.space_new
           /\ gossip_out' =
                [op |-> "fetch_op_data_by_regions", dna |-> dna_hash,
                 countersigning_session |-> FALSE, ops |-> << >>,
                 out |-> IF r.ok THEN fetch_by_regions(r.map[dna_hash], regions)
                         ELSE << >>,
                 ok |-> r.ok, call |-> 1 - gossip_out.call]
    /\ UNCHANGED << queue_consumer_map, threads, published >>
    /\ UNCHANGED << intVars, valVars, cascadeVars, opsVars, restVars >>

\* incoming_dht_ops_workflow: the ops enter the validation limbo
incoming_dht_ops_workflow(space, ops) ==
    [space EXCEPT !.limbo = @ \cup Range(ops)]

\* incoming_countersigning: the ops enter the countersigning workspace
incoming_countersigning(space, ops) ==
    [space EXCEPT !.countersigning_workspace = @ \cup Range(ops)]

\* the ops sent to the incoming ops workflow whatever the flag
handle_publish_NoSession(m, dna_hash, countersigning_session, ops) ==
    IF dna_hash \in queue_consumer_map
    THEN [m EXCEPT ![dna_hash] = incoming_dht_ops_workflow(@, ops)]
    ELSE m

\* handle_publish once the Space is there: the map of spaces it leaves.
\* The ops go to the countersigning workflow under a countersigning
\* session, to the incoming ops workflow otherwise; they are dropped when
\* the trigger of the workflow is not in the queue consumer map.
handle_publish(m, dna_hash, countersigning_session, ops) ==
    IF countersigning_session
    THEN IF dna_hash \in queue_consumer_map
         THEN [m EXCEPT ![dna_hash] = incoming_countersigning(@, ops)]
         ELSE m
    ELSE IF dna_hash \in queue_consumer_map
         THEN [m EXCEPT ![dna_hash] = incoming_dht_ops_workflow(@, ops)]
         ELSE m

\* Spaces::handle_publish
HandlePublish(dna_hash, countersigning_session, ops, db_ok) ==
    /\ published < MaxPublish
    /\ LET r == get_or_create_space_ref(map, space_new, dna_hash, db_ok)
       IN  /\ map' = IF r.ok
                     THEN handle_publish(r.map, dna_hash, countersigning_session, ops)
                     ELSE r.map
           /\ space_new' = r.space_new
           /\ gossip_out' =
                [op |-> "publish", dna |-> dna_hash,
                 countersigning_session |-> countersigning_session, ops |-> ops,
                 out |-> << >>, ok |-> r.ok, call |-> 1 - gossip_out.call]
    /\ published' = published + 1
    /\ UNCHANGED << queue_consumer_map, threads >>
    /\ UNCHANGED << intVars, valVars, cascadeVars, opsVars, restVars >>

\* the queue consumers of the cells of a DNA are spawned: their triggers
\* enter the queue consumer map
SpawnQueueConsumers(dna_hash) ==
    /\ dna_hash \notin queue_consumer_map
    /\ queue_consumer_map' = queue_consumer_map \cup {dna_hash}
    /\ UNCHANGED << map, space_new, threads, gossip_out, published >>
    /\ UNCHANGED << intVars, valVars, cascadeVars, opsVars, restVars >>

\* the validation and integration workflows take an op of the limbo to the
\* integrated ops
IntegrateSpaceOp(dna_hash, hash) ==
    /\ dna_hash \in DOMAIN map
    /\ hash \in map[dna_hash].limbo
    /\ map' = [map EXCEPT ![dna_hash] =
                    [@ EXCEPT !.limbo = @ \ {hash}, !.integrated = @ \cup {hash}]]
    /\ UNCHANGED << queue_consumer_map, space_new, threads, gossip_out, published >>
    /\ UNCHANGED << intVars, valVars, cascadeVars, opsVars, restVars >>

\* the batches of ops of a publish
PublishOps == { << "o1", "o2" >>, << "o3" >> }

NextGossip ==
    \/ \E dna_hash \in DnaHashes : SpawnQueueConsumers(dna_hash)
    \/ \E dna_hash \in DnaHashes, ops \in PublishOps,
          countersigning_session \in BOOLEAN, db_ok \in BOOLEAN :
            HandlePublish(dna_hash, countersigning_session, ops, db_ok)
    \/ \E dna_hash \in DnaHashes, hash \in SpaceOps : IntegrateSpaceOp(dna_hash, hash)
    \/ \E dna_hash \in DnaHashes, op_hashes \in SeqsUpTo(SpaceOps, MaxQuery),
          db_ok \in BOOLEAN :
            HandleFetchOpDataByHashes(dna_hash, op_hashes, db_ok)
    \/ \E dna_hash \in DnaHashes, regions \in SeqsUpTo(Regions, MaxQuery),
          db_ok \in BOOLEAN :
            HandleFetchOpDataByRegions(dna_hash, regions, db_ok)

SpecGossip == Init /\ [][NextGossip]_vars


(***************************************************************************)
(* Properties of the gossip handlers.                                      *)
(***************************************************************************)
\* the last handler called is a fetch of op data
IsFetch == gossip_out.op \in {"fetch_op_data_by_hashes", "fetch_op_data_by_regions"}

\* the bytes of the payload of a returned op: the header and the entry
\* attached to it
PayloadBytes(r) ==
    OpRow(r.hash).header_size + (IF r.entry THEN OpRow(r.hash).entry_size ELSE 0)

RECURSIVE TotalBytes(_)
TotalBytes(out) ==
    IF out = << >> THEN 0 ELSE PayloadBytes(Head(out)) + TotalBytes(Tail(out))

\* C17: fetch_op_data caps the total bytes.  Whatever the request, by
\* hashes or by regions, the payloads of the ops returned sum up to no more
\* than the in-memory bound of 3,000,000 bytes.
C17_FetchCapped ==
    IsFetch => TotalBytes(gossip_out.out) <= OPS_IN_MEMORY_BOUND_BYTES

\* C18: fetch_op_data filters the private entries out.  Whatever the
\* request, by hashes or by regions, an op is returned with its entry only
\* when the entry type of its header is public.
C18_NoPrivateEntry ==
    IsFetch => \A i \in DOMAIN gossip_out.out :
                    gossip_out.out[i].entry
                        => OpRow(gossip_out.out[i].hash).visibility = "Public"

\* a fetch by hashes has returned o3, the op of a header with a private
\* entry, without the entry, next to o1 with its public entry
C18_Witness ==
    /\ gossip_out.op = "fetch_op_data_by_hashes"
    /\ \E i \in DOMAIN gossip_out.out :
            gossip_out.out[i].hash = "o3" /\ ~gossip_out.out[i].entry
    /\ \E i \in DOMAIN gossip_out.out :
            gossip_out.out[i].hash = "o1" /\ gossip_out.out[i].entry

\* the step is a publish event handled without an error
IsPublish ==
    /\ gossip_out'.call # gossip_out.call
    /\ gossip_out'.op = "publish" /\ gossip_out'.ok

\* the stores of the space of a DNA, empty when the space is not there yet
LimboOf(m, d) == IF d \in DOMAIN m THEN m[d].limbo ELSE {}
CountersigningOf(m, d) == IF d \in DOMAIN m THEN m[d].countersigning_workspace ELSE {}

\* a publish event leaves the spaces of the other DNAs as they are
OtherSpacesUnchanged ==
    \A e \in DnaHashes \ {gossip_out'.dna} :
        /\ e \in DOMAIN map' <=> e \in DOMAIN map
        /\ e \in DOMAIN map => map'[e] = map[e]

\* C19 as stated: a publish event enqueues every op received into the
\* validation limbo of the space of its DNA, unless the countersigning
\* session flag is set: then the ops go to the countersigning workspace and
\* not into the validation limbo.
C19_PublishEnqueues ==
    [][IsPublish =>
        LET d == gossip_out'.dna
            ops == Range(gossip_out'.ops)
        IN  IF gossip_out'.countersigning_session
            THEN /\ ops \subseteq CountersigningOf(map', d)
                 /\ LimboOf(map', d) = LimboOf(map, d)
            ELSE ops \subseteq LimboOf(map', d)]_vars

\* C19 amended: when the queue consumers of the DNA are spawned, a publish
\* event enqueues every op received into the validation limbo of the space
\* of its DNA, or, under a countersigning session, into the countersigning
\* workspace of that space and not into the limbo; when they are not
\* spawned the ops are dropped.  The spaces of the other DNAs are left as
\* they are.
C19_PublishRoutes ==
    [][IsPublish =>
        LET d == gossip_out'.dna
            ops == Range(gossip_out'.ops)
        IN  /\ OtherSpacesUnchanged
            /\ d \in DOMAIN map'
            /\ IF d \notin queue_consumer_map
               THEN /\ LimboOf(map', d) = LimboOf(map, d)
                    /\ CountersigningOf(map', d) = CountersigningOf(map, d)
               ELSE IF gossip_out'.countersigning_session
               THEN /\ CountersigningOf(map', d) = CountersigningOf(map, d) \cup ops
                    /\ LimboOf(map', d) = LimboOf(map, d)
               ELSE /\ LimboOf(map', d) = LimboOf(map, d) \cup ops
                    /\ CountersigningOf(map', d) = CountersigningOf(map, d)]_vars

\* a publish of o3 to dna1 under a countersigning session has put o3 into
\* the countersigning workspace of dna1 and not into its limbo, while the
\* limbo of dna2 holds the ops of an earlier publish
C19_Witness ==
    /\ gossip_out.op = "publish" /\ gossip_out.ok
    /\ gossip_out.dna = "dna1" /\ gossip_out.countersigning_session
    /\ gossip_out.ops = << "o3" >>
    /\ CountersigningOf(map, "dna1") = {"o3"} /\ LimboOf(map, "dna1") = {}
    /\ LimboOf(map, "dna2") = {"o1", "o2"}

(***************************************************************************)
(* The production of the ops of an element.  An element is a header with   *)
(* the entry it was committed with, if it is held; the callers give the    *)
(* function elements read back from the source chain, so an entry header   *)
(* comes with its own entry or, when the entry is not held, with none.     *)
(***************************************************************************)
MaxProduce == 2

\* the elements: a header with its own entry or with none
Elements ==
    { el \in [header : Headers,
               maybe_entry : {NoHash} \cup { entry_data(x) : x \in Headers }] :
        el.maybe_entry \in {NoHash, entry_data(el.header)} }

\* one call of produce_ops_from_element
ProduceOps(el) ==
    /\ Len(produced) < MaxProduce
    /\ produced' = Append(produced,
            [element |-> el,
             result |-> produce_ops_from_element(el.header, el.maybe_entry)])
    /\ UNCHANGED << intVars, valVars, cascadeVars, spaceVars, restVars >>

NextOps == \E el \in Elements : ProduceOps(el)

SpecOps == Init /\ [][NextOps]_vars

\* the ops that follow the two common ops, by header kind
KindOps(type) ==
    CASE type = "EntryCreate" -> << "StoreEntry" >>
      [] type = "EntryUpdate" -> << "StoreEntry", "RegisterReplacedBy" >>
      [] type = "ElementDelete" -> << "RegisterDeletedBy", "RegisterDeletedEntryHeader" >>
      [] type = "LinkAdd" -> << "RegisterAddLink" >>
      [] type = "LinkRemove" -> << "RegisterRemoveLink" >>
      [] OTHER -> << >>

\* the types of a sequence of ops, in order
OpTypes(ops) == [i \in DOMAIN ops |-> ops[i].type]

\* a record: an element whose entry header carries its entry
IsRecord(el) == entry_data(el.header) # NoHash => el.maybe_entry # NoHash

Signatures == {"s1", "s2"}

\* the op with another Signature in its first field
WithSignature(op, sig) == [op EXCEPT !.signature = sig]

\* the ops that arrive: an element and a link, under each signature
SignedOps ==
    { WithSignature(op, sig) :
        op \in { DhtOp("StoreElement", "H1", "E1"), DhtOp("RegisterAddLink", "L1", NoHash) },
        sig \in Signatures }

NextSigned ==
    \/ Consumer
    \/ \E op \in SignedOps : Enqueue(op)
    \/ TriggerIntegration
    \/ Tick

SpecSigned == Init /\ [][NextSigned]_vars

\* the ops of the same kind built from the same header
SameUniqueForm(a, b) == a.type = b.type /\ a.header = b.header

\* an op of the kind and header of `op` is in the index of the workspace
TwinIntegrated(op) ==
    \E k \in DOMAIN ws.integrated_dht_ops : k[1] = op.type /\ k[2] = op.header

\* C21: two queued ops of the same kind and header have the same op hash,
\* whatever their signatures; and the pass that meets an op whose twin (same
\* kind, same header, any signature) is already in the integrated-op index
\* skips it: nothing is integrated, stored, counted or deferred for it.
C21_SignaturesCollapse ==
    [][/\ \A i, j \in DOMAIN integration_queue :
            SameUniqueForm(integration_queue[i].op, integration_queue[j].op)
                => DhtOpHash(integration_queue[i].op) = DhtOpHash(integration_queue[j].op)
       /\ (pc = "loop" /\ pc' = "loop" /\ ws.ops # << >>
           /\ ws'.ops = Tail(ws.ops) /\ TwinIntegrated(Head(ws.ops).op))
            => ws' = [ws EXCEPT !.ops = Tail(ws.ops)]]_vars

\* H1's StoreElement signed s1 was integrated at time 0 and committed, and
\* the pass now running at time 1 has just skipped the same op signed s2
C21_Witness ==
    /\ pc = "loop" /\ now = 1
    /\ ws.ops = << >> /\ ws.next_ops = << >> /\ ws.num_integrated = 0
    /\ ws.drained = 1
    /\ integration_queue =
            << IntegrationQueueValue(WithSignature(DhtOp("StoreElement", "H1", "E1"), "s2")) >>
    /\ DOMAIN integrated_dht_ops = { DhtOpHash(DhtOp("StoreElement", "H1", "E1")) }
    /\ integrated_dht_ops[DhtOpHash(DhtOp("StoreElement", "H1", "E1"))].when_integrated = 0
    /\ ws.integrated_dht_ops = integrated_dht_ops

(***************************************************************************)
(* Genesis and zome initialization.  A source chain is the sequence of its *)
(* committed headers; a header is [type, entry, header_seq].               *)
(***************************************************************************)
\* SourceChain::put: the header is appended at the head, its sequence one
\* more than the one of the head, 0 on an empty chain
chain_put(chain, type, entry) ==
    Append(chain, [type |-> type, entry |-> entry, header_seq |-> Len(chain)])

\* SourceChain::put_entry: the header of a new entry
put_entry(chain, entry) ==
    chain_put(chain, IF entry = "Dna" THEN "Dna" ELSE "EntryCreate", entry)

\* SourceChain::get_index
get_index(chain, i) ==
    IF \E k \in DOMAIN chain : chain[k].header_seq = i
    THEN (CHOOSE h \in Range(chain) : h.header_seq = i).type
    ELSE NoHash

\* the answers of the DPKI service
DpkiResponses == {"VALID", "INVALID"}

\* GenesisWorkflow::workflow: [result, chain], the chain as the workspace
\* holds it when the workflow returns
genesis_workflow(chain, dpki_response) ==
    IF dpki_response = "INVALID"
    THEN [result |-> "AgentInvalid", chain |-> chain]
    ELSE [result |-> "Ok", chain |-> put_entry(put_entry(chain, "Dna"), "AgentKey")]

\* Cell::genesis: the workflow and, when it succeeds, the commit of its
\* workspace.  The conductor calls it on a cell whose chain is empty.
Genesis(c, dpki_response) ==
    /\ source_chain[c] = << >>
    /\ LET r == genesis_workflow(source_chain[c], dpki_response)
       IN  /\ source_chain' = [source_chain EXCEPT ![c] = r.chain]
           /\ workflow_out' = [workflow_out EXCEPT
                                ![c] = [workflow |-> "genesis", result |-> r.result]]
    /\ UNCHANGED << intVars, valVars, cascadeVars, spaceVars, opsVars, vaultVars, dhtVars, hostVars, socketVars >>

\* InitResult, and the error of run_init
InitResults == {"Pass", "Fail", "UnresolvedDependencies", "Err"}

\* initialize_zomes_workflow: the init callback runs; unless run_init is an
\* error the init marker is put and the workspace committed, whatever the
\* InitResult.  It runs once, after genesis.
InitializeZomes(c, init_result) ==
    /\ workflow_out[c] = [workflow |-> "genesis", result |-> "Ok"]
    /\ source_chain' = [source_chain EXCEPT
                            ![c] = IF init_result = "Err" THEN @
                                   ELSE chain_put(@, "InitZomesComplete", NoHash)]
    /\ workflow_out' = [workflow_out EXCEPT
                            ![c] = [workflow |-> "initialize_zomes", result |-> init_result]]
    /\ UNCHANGED << intVars, valVars, cascadeVars, spaceVars, opsVars, vaultVars, dhtVars, hostVars, socketVars >>

NextChain ==
    \/ \E c \in Cells, dpki_response \in DpkiResponses : Genesis(c, dpki_response)
    \/ \E c \in Cells, init_result \in InitResults : InitializeZomes(c, init_result)

SpecChain == Init /\ [][NextChain]_vars

\* C22: a cell whose genesis has completed successfully holds exactly three
\* records, Dna at sequence 0, AgentValidationPkg at sequence 1 and the
\* create of the agent key at sequence 2; and the init marker written by
\* zome initialization afterwards is at sequence 3.
C22_GenesisThree ==
    \A c \in Cells :
        /\ workflow_out[c] = [workflow |-> "genesis", result |-> "Ok"]
            => /\ Len(source_chain[c]) = 3
               /\ get_index(source_chain[c], 0) = "Dna"
               /\ get_index(source_chain[c], 1) = "AgentValidationPkg"
               /\ get_index(source_chain[c], 2) = "EntryCreate"
               /\ source_chain[c][3].entry = "AgentKey"
        /\ workflow_out[c].workflow = "initialize_zomes"
            => get_index(source_chain[c], 3) = "InitZomesComplete"

(***************************************************************************)
(* The element vault as a buffered store.  ChainCasBuf pairs two CasBufs,  *)
(* one for the headers and one for the entries; each stages its writes in  *)
(* a scratch space that flush_to_txn applies to the persisted store.       *)
(***************************************************************************)
\* the content a hash addresses
ContentOf(k) == << "content", k >>

\* the (ChainHeader, Entry) pairs given to put
VaultElements == { << "H1", "E1" >>, << "U1", "E2" >> }
VaultHeaders == { v[1] : v \in VaultElements }
VaultEntries == { v[2] : v \in VaultElements }

\* a staged write of the scratch space
KvPut(v) == [op |-> "Put", v |-> v]
KvDelete == [op |-> "Delete", v |-> NoHash]

\* CasBuf::put: `let (content, hash) = h.into_inner(); self.0.put(hash, content)`
CasBuf_put(scratch, hash) == (hash :> KvPut(ContentOf(hash))) @@ scratch

\* CasBuf::delete: `self.0.delete(k)`
CasBuf_delete(scratch, k) == (k :> KvDelete) @@ scratch

\* CasBuf::flush_to_txn: every staged write is applied to the store
CasBuf_flush(store, scratch) ==
    LET kept == { k \in DOMAIN store :
                    ~(k \in DOMAIN scratch /\ scratch[k].op = "Delete") }
        puts == { k \in DOMAIN scratch : scratch[k].op = "Put" }
    IN  [k \in kept \cup puts |-> IF k \in puts THEN scratch[k].v ELSE store[k]]

\* ChainCasBuf::put
VaultPut(v) ==
    /\ vault_scratch' = [headers |-> CasBuf_put(vault_scratch.headers, v[1]),
                         entries |-> CasBuf_put(vault_scratch.entries, v[2])]
    /\ vault_scratch' # vault_scratch
    /\ UNCHANGED << vault, intVars, valVars, cascadeVars, spaceVars, opsVars, chainVars, dhtVars, hostVars, socketVars >>

\* ChainCasBuf::delete_entry
VaultDeleteEntry(k) ==
    /\ vault_scratch' = [vault_scratch EXCEPT !.entries = CasBuf_delete(@, k)]
    /\ vault_scratch' # vault_scratch
    /\ UNCHANGED << vault, intVars, valVars, cascadeVars, spaceVars, opsVars, chainVars, dhtVars, hostVars, socketVars >>

\* ChainCasBuf::delete_header
VaultDeleteHeader(k) ==
    /\ vault_scratch' = [vault_scratch EXCEPT !.headers = CasBuf_delete(@, k)]
    /\ vault_scratch' # vault_scratch
    /\ UNCHANGED << vault, intVars, valVars, cascadeVars, spaceVars, opsVars, chainVars, dhtVars, hostVars, socketVars >>

\* ChainCasBuf::flush_to_txn and the commit of the writer; the buffer is
\* consumed and the next one starts with an empty scratch space
VaultFlush ==
    /\ vault_scratch # [headers |-> EmptyMap, entries |-> EmptyMap]
    /\ vault' = [headers |-> CasBuf_flush(vault.headers, vault_scratch.headers),
                 entries |-> CasBuf_flush(vault.entries, vault_scratch.entries)]
    /\ vault_scratch' = [headers |-> EmptyMap, entries |-> EmptyMap]
    /\ UNCHANGED << intVars, valVars, cascadeVars, spaceVars, opsVars, chainVars, dhtVars, hostVars, socketVars >>

NextVault ==
    \/ \E v \in VaultElements : VaultPut(v)
    \/ \E k \in VaultEntries : VaultDeleteEntry(k)
    \/ \E k \in VaultHeaders : VaultDeleteHeader(k)
    \/ VaultFlush

SpecVault == Init /\ [][NextVault]_vars

\* C23: a header or an entry that is in the committed vault is in it after
\* every step, with the same content: no operation of the vault removes or
\* overwrites it.
C23_AppendOnly ==
    [][/\ \A k \in DOMAIN vault.headers :
            k \in DOMAIN vault'.headers /\ vault'.headers[k] = vault.headers[k]
       /\ \A k \in DOMAIN vault.entries :
            k \in DOMAIN vault'.entries /\ vault'.entries[k] = vault.entries[k]]_vars

(***************************************************************************)
(* Quantized arcs (arq.rs).  A u32 is the set of the positions of its one  *)
(* bits, so that all 32 bits are kept: {} is 0, {0} is 1, {1, 3} is 10 and *)
(* 0..31 is u32::MAX.  A product with a power of two is a shift of the     *)
(* positions; the bits shifted to position 32 and beyond are the overflow. *)
(* A natural number of any size is a finite set of positions in the same   *)
(* way.  An overflow panics in a build with overflow checks and wraps in   *)
(* a build without them.                                                   *)
(***************************************************************************)
MaxPower == 31

Builds == {"debug", "release"}

RECURSIVE Pow2(_)
Pow2(k) == IF k = 0 THEN 1 ELSE 2 * Pow2(k - 1)

\* the u32 of a small number
ToBits(n) == { i \in 0..30 : (n \div Pow2(i)) % 2 = 1 }

\* the exact product of a number with 2^k
Shl(bits, k) == { i + k : i \in bits }

\* the u32 that a product wraps to
Wrap32(bits) == { i \in bits : i < 32 }

\* count / 2u32.pow(k)
DivPow2(bits, k) == { i - k : i \in { j \in bits : j >= k } }

\* Option<(u8, u32)>, and the panic of an overflow
Some(power, count) == [done |-> TRUE, kind |-> "Some", power |-> power, count |-> count]
None == [done |-> TRUE, kind |-> "None"]
Panic == [done |-> TRUE, kind |-> "Panic"]

\* count * 2u32.pow(k): [overflow, value]
MulPow2(bits, k, build) ==
    LET exact == Shl(bits, k)
    IN  IF exact = Wrap32(exact) THEN [overflow |-> FALSE, value |-> exact]
        ELSE IF build = "debug" THEN [overflow |-> TRUE, value |-> {}]
        ELSE [overflow |-> FALSE, value |-> Wrap32(exact)]

\* requantize
requantize(old_power, old_count, new_power, build) ==
    IF old_power < new_power
    THEN LET count == DivPow2(old_count, new_power - old_power)
             back == MulPow2(count, new_power - old_power, build)
         IN  IF back.overflow THEN Panic
             ELSE IF old_count = back.value THEN Some(new_power, count) ELSE None
    ELSE LET m == MulPow2(old_count, old_power - new_power, build)
         IN  IF m.overflow THEN Panic ELSE Some(new_power, m.value)

\* the counts the calls are made with
Counts ==
    { ToBits(n) : n \in {0, 1, 2, 3, 5, 10, 256} } \cup { {31}, 0..30, 0..31 }

RequantizeCalls ==
    [fn : {"requantize"}, old_power : 0..MaxPower, count : Counts, new_power : 0..MaxPower]

\* one call of requantize
Requantize(build) ==
    /\ dht_call.fn = "requantize"
    /\ ~dht_out.done
    /\ dht_out' = requantize(dht_call.old_power, dht_call.count, dht_call.new_power, build)
    /\ UNCHANGED << dht_call, intVars, valVars, cascadeVars, spaceVars, opsVars,
                    chainVars, vaultVars, hostVars, socketVars >>

\* the represented length: count * 2^power
Length(power, count) == Shl(count, power)

\* C24: requantize(old_power, count, new_power) returns Some((new_power, c))
\* with c * 2^new_power = count * 2^old_power whenever the length is a
\* multiple of 2^new_power, which it always is when new_power <= old_power,
\* and None otherwise.
C24_Lossless ==
    (dht_call.fn = "requantize" /\ dht_out.done) =>
        LET length == Length(dht_call.old_power, dht_call.count)
        IN  IF \A i \in length : i >= dht_call.new_power
            THEN /\ dht_out.kind = "Some"
                 /\ dht_out.power = dht_call.new_power
                 /\ Length(dht_out.power, dht_out.count) = length
            ELSE dht_out.kind = "None"

\* Topology::unit_zero and Topology::standard_epoch: the space quantum is
\* 2^space_power locations
unit_zero == [space_power |-> 0]
standard_epoch == [space_power |-> 12]
Topologies == {unit_zero, standard_epoch}

Bool(b) == [done |-> TRUE, kind |-> "Bool", value |-> b]

\* `power -= topo.space_power` on a u8: [overflow, value]
SubU8(a, b, build) ==
    IF a >= b THEN [overflow |-> FALSE, value |-> a - b]
    ELSE IF build = "debug" THEN [overflow |-> TRUE, value |-> 0]
    ELSE [overflow |-> FALSE, value |-> (a - b) + 256]

\* is_full
is_full(topo, power, count, build) ==
    LET p == SubU8(power, topo.space_power, build)
    IN  IF p.overflow THEN Panic
        ELSE IF p.value >= 32 THEN Bool(TRUE)
        ELSE IF p.value = 0 THEN Bool(FALSE)
        ELSE Bool(\E i \in count : i >= 32 - p.value)

IsFullCalls ==
    [fn : {"is_full"}, topo : Topologies, power : 0..MaxPower, count : Counts]

\* one call of is_full
IsFull(build) ==
    /\ dht_call.fn = "is_full"
    /\ ~dht_out.done
    /\ dht_out' = is_full(dht_call.topo, dht_call.power, dht_call.count, build)
    /\ UNCHANGED << dht_call, intVars, valVars, cascadeVars, spaceVars, opsVars,
                    chainVars, vaultVars, hostVars, socketVars >>

\* a caller about to call requantize or is_full
InitArq ==
    /\ InitConductor
    /\ dht_call \in RequantizeCalls \cup IsFullCalls
    /\ dht_out = NoOut

NextArq == \E build \in Builds : Requantize(build) \/ IsFull(build)

SpecArq == InitArq /\ [][NextArq]_vars

\* C28: is_full(topology, power, count) returns, without a panic, true
\* exactly when count * 2^power * the space quantum is at least 2^32.
C28_IsFull ==
    (dht_call.fn = "is_full" /\ dht_out.done) =>
        /\ dht_out.kind = "Bool"
        /\ dht_out.value =
            (\E i \in Length(dht_call.power + dht_call.topo.space_power, dht_call.count) :
                i >= 32)

(***************************************************************************)
(* Telescoping times (coords.rs).  Two peers of a network call            *)
(* telescoping_times, each with its own `now`; the topology is the         *)
(* identity topology, whose time quantum is one microsecond.  A segment is *)
(* [power, offset]: the interval of length 2^power whose left edge is at   *)
(* offset * 2^power.                                                       *)
(***************************************************************************)
MaxNow == 17

Peers == {"a", "b"}
TimeOrigins == {0, 3}

\* Dimension::identity
identity_quantum == 1

\* Topology::time_coord
time_coord(time_origin, t) ==
    LET d == IF t - time_origin > 0 THEN t - time_origin ELSE 0
    IN  d \div identity_quantum

\* u32::leading_zeros of a non-zero value
leading_zeros(bits) == 31 - (CHOOSE i \in bits : \A j \in bits : j <= i)

\* Segment::new
Segment(power, offset) == [power |-> power, offset |-> offset]

\* the loop with a duplicated segment pushed at the offset of the first
RECURSIVE telescoping_loop_SameOffset(_, _, _, _)
telescoping_loop_SameOffset(k, now_u32, seg, times) ==
    IF k = 0 THEN times
    ELSE LET seg1 == Segment(seg.power - 1, seg.offset * 2)
             next_u32 == Wrap32(Shl(now_u32 \ {31}, 1))
         IN  IF 31 \in next_u32
             THEN telescoping_loop_SameOffset(k - 1, next_u32,
                        Segment(seg1.power, seg1.offset + 1),
                        times \o << seg1, seg1 >>)
             ELSE telescoping_loop_SameOffset(k - 1, next_u32,
                        Segment(seg1.power, seg1.offset + 1), Append(times, seg1))

\* the loop with the offset of the segment left as it is when the power drops
RECURSIVE telescoping_loop_NoDoubling(_, _, _, _)
telescoping_loop_NoDoubling(k, now_u32, seg, times) ==
    IF k = 0 THEN times
    ELSE LET seg1 == Segment(seg.power - 1, seg.offset)
             next_u32 == Wrap32(Shl(now_u32 \ {31}, 1))
             seg2 == Segment(seg1.power, seg1.offset + 1)
         IN  IF 31 \in next_u32
             THEN telescoping_loop_NoDoubling(k - 1, next_u32,
                        Segment(seg2.power, seg2.offset + 1),
                        times \o << seg1, seg2 >>)
             ELSE telescoping_loop_NoDoubling(k - 1, next_u32, seg2, Append(times, seg1))

\* the body of `for _ in 0..(32 - zs - 1)`, k iterations to go: the power
\* drops and the offset doubles, the leading bit of `now` (now_u32) is removed and the
\* next one shifted in, the segment is pushed, and pushed once more at the
\* next offset if the bit shifted in is 1
RECURSIVE telescoping_loop(_, _, _, _)
telescoping_loop(k, now_u32, seg, times) ==
    IF k = 0 THEN times
    ELSE LET seg1 == Segment(seg.power - 1, seg.offset * 2)
             next_u32 == Wrap32(Shl(now_u32 \ {31}, 1))
             seg2 == Segment(seg1.power, seg1.offset + 1)
         IN  IF 31 \in next_u32
             THEN telescoping_loop(k - 1, next_u32,
                        Segment(seg2.power, seg2.offset + 1),
                        times \o << seg1, seg2 >>)
             ELSE telescoping_loop(k - 1, next_u32, seg2, Append(times, seg1))

\* the function with the first segment one power too high
telescoping_times_PowerOff(time_origin, t) ==
    LET now_u32 == ToBits(time_coord(time_origin, t) + 1)
    IN  IF now_u32 = {0} THEN << >>
        ELSE LET zs == leading_zeros(now_u32)
             IN  telescoping_loop(32 - zs - 1, Wrap32(Shl(now_u32, zs)),
                                  Segment(32 - zs, 0), << >>)

\* Topology::telescoping_times
telescoping_times(time_origin, t) ==
    LET now_u32 == ToBits(time_coord(time_origin, t) + 1)
    IN  IF now_u32 = {0} THEN << >>
        ELSE LET zs == leading_zeros(now_u32)
             IN  telescoping_loop(32 - zs - 1, Wrap32(Shl(now_u32, zs)),
                                  Segment(32 - zs - 1, 0), << >>)

TelescopingCalls ==
    [fn : {"telescoping_times"}, time_origin : TimeOrigins, now : [Peers -> 0..MaxNow]]

NoTimes == [done |-> FALSE, times |-> EmptyMap]

\* the call of one peer
TelescopingTimes(peer) ==
    /\ dht_call.fn = "telescoping_times"
    /\ peer \notin DOMAIN dht_out.times
    /\ dht_out' = [done |-> TRUE,
                   times |-> (peer :> telescoping_times(dht_call.time_origin,
                                                        dht_call.now[peer]))
                                @@ dht_out.times]
    /\ UNCHANGED << dht_call, intVars, valVars, cascadeVars, spaceVars, opsVars,
                    chainVars, vaultVars, hostVars, socketVars >>

\* two peers of one network about to call telescoping_times
InitTimes ==
    /\ InitConductor
    /\ dht_call \in TelescopingCalls
    /\ dht_out = NoTimes

NextTimes == \E peer \in Peers : TelescopingTimes(peer)

SpecTimes == InitTimes /\ [][NextTimes]_vars

\* Segment::length and the left and right edge of Segment::bounds
SegLength(seg) == Pow2(seg.power)
SegLeft(seg) == seg.offset * SegLength(seg)
SegEnd(seg) == SegLeft(seg) + SegLength(seg)

RECURSIVE SumLengths(_)
SumLengths(times) ==
    IF times = << >> THEN 0 ELSE SegLength(Head(times)) + SumLengths(Tail(times))

\* the peers that have their segmentation
Called == IF dht_call.fn = "telescoping_times" THEN DOMAIN dht_out.times ELSE {}

\* the count of time quanta between the origin and the now of a peer
QuantaOf(peer) == time_coord(dht_call.time_origin, dht_call.now[peer])

\* C25: the segments of telescoping_times(now) tile the time axis from the
\* origin: the left bound of every segment is the sum of the lengths of the
\* segments before it, and all the lengths sum to the count of time quanta
\* between the origin and now.
C25_Tiling ==
    \A peer \in Called :
        LET times == dht_out.times[peer]
        IN  /\ \A i \in DOMAIN times :
                    SegLeft(times[i]) = SumLengths(SubSeq(times, 1, i - 1))
            /\ SumLengths(times) = QuantaOf(peer)

\* peer a, 13 quanta after the origin, has the segments 4, 4, 2, 2, 1
C25_Witness ==
    /\ "a" \in Called
    /\ QuantaOf("a") = 13
    /\ dht_out.times["a"] =
            << Segment(2, 0), Segment(2, 1), Segment(1, 4), Segment(1, 5), Segment(0, 12) >>

Last(times) == times[Len(times)]

\* C26 as stated: the final segment of telescoping_times(now) has power 0 if
\* and only if the count of time quanta between the origin and now is odd.
C26_OddIff ==
    \A peer \in Called :
        LET times == dht_out.times[peer]
        IN  (times # << >> /\ Last(times).power = 0) <=> (QuantaOf(peer) % 2 = 1)

\* C26: telescoping_times(now) is empty exactly when no time quantum lies
\* between the origin and now, and the final segment of a segmentation that
\* is not empty has power 0, whether the count of quanta is odd or even.
C26_EndsWithOne ==
    \A peer \in Called :
        LET times == dht_out.times[peer]
        IN  /\ (times = << >>) <=> (QuantaOf(peer) = 0)
            /\ times # << >> => Last(times).power = 0

\* peer b, 6 quanta after the origin, has the segments 2, 2, 1, 1: the
\* count is even and the final segment has power 0
C26_Witness ==
    /\ "b" \in Called
    /\ QuantaOf("b") = 6
    /\ Len(dht_out.times["b"]) = 4
    /\ Last(dht_out.times["b"]) = Segment(0, 5)

\* C27 as stated: with now_a <= now_b, each segment of one segmentation
\* that ends at or before now_a is also a segment, with the same power and
\* offset, of the other.
C27_PrefixAgree ==
    \A p, q \in Called :
        QuantaOf(p) <= QuantaOf(q) =>
            /\ \A seg \in Range(dht_out.times[p]) :
                    SegEnd(seg) <= QuantaOf(p) => seg \in Range(dht_out.times[q])
            /\ \A seg \in Range(dht_out.times[q]) :
                    SegEnd(seg) <= QuantaOf(p) => seg \in Range(dht_out.times[p])

\* one interval within the other
Within(s, t) == SegLeft(t) <= SegLeft(s) /\ SegEnd(s) <= SegEnd(t)

\* C27: with now_a <= now_b, each segment of the segmentation of now_a lies
\* within exactly one segment of the segmentation of now_b: the later
\* segmentation is the coarser one on the span both cover, and the two
\* agree on a segment only where the later has not merged it.
C27_Nested ==
    \A p, q \in Called :
        QuantaOf(p) <= QuantaOf(q) =>
            LET earlier == dht_out.times[p]
                later == dht_out.times[q]
            IN  \A i \in DOMAIN earlier :
                    Cardinality({ j \in DOMAIN later : Within(earlier[i], later[j]) }) = 1

\* peer a is 6 quanta after the origin and peer b 7: the segments 2, 2 of a
\* lie within the segment 4 of b, which ends before the now of a and is no
\* segment of a
C27_Witness ==
    /\ Called = Peers
    /\ QuantaOf("a") = 6 /\ QuantaOf("b") = 7
    /\ dht_out.times["a"] = << Segment(1, 0), Segment(1, 1), Segment(0, 4), Segment(0, 5) >>
    /\ dht_out.times["b"] = << Segment(2, 0), Segment(1, 2), Segment(0, 6) >>

(***************************************************************************)
(* The host functions that author an element.  The header is put on the    *)
(* source chain, whose elements are the vault of the cell, and the ops of  *)
(* the element are integrated inline into the metadata cache.  Elements of *)
(* other agents come to the cell through the cascade, into the cache.      *)
(***************************************************************************)
\* the elements this agent authors through create, update, delete,
\* create_link and delete_link
Authorable == {"H1", "H2", "U1", "D1", "D2", "L1", "R1"}

\* the elements of other agents that the cascade may have fetched
Fetchable == {"H1", "L1"}

\* the body of `for op in produce_ops_from_element(element)?`: every op is
\* integrated without its element data; a deferred op is unreachable!()
RECURSIVE integrate_ops_to_cache(_, _, _, _)
integrate_ops_to_cache(ops, element_store, meta_store, t) ==
    IF ops = << >>
    THEN [panic |-> FALSE, element_store |-> element_store, meta_store |-> meta_store]
    ELSE LET r == integrate_single_dht_op(element_store, meta_store,
                                          IntegrationQueueValue(Head(ops)), FALSE, t)
         IN  IF r.outcome = "Deferred"
             THEN [panic |-> TRUE, element_store |-> r.element_store,
                   meta_store |-> r.meta_store]
             ELSE integrate_ops_to_cache(Tail(ops), r.element_store, r.meta_store, t)

\* integrate_to_cache
integrate_to_cache(h, element_store, meta_store, t) ==
    integrate_ops_to_cache(produce_ops_from_element(h, entry_data(h)).ops,
                           element_store, meta_store, t)

\* the cascade has fetched the element of another agent into the cache
CacheElement(h) ==
    /\ h \notin cas.headers
    /\ h \notin element_cache.headers
    /\ element_cache' = put(element_cache, h, entry_data(h))
    /\ UNCHANGED << intVars, valVars, meta_cache, get_result, spaceVars, opsVars,
                    chainVars, vaultVars, dhtVars, hostVars, socketVars >>

\* the header an element refers to, if any, is one this cell has seen
KnownTarget(h) ==
    \/ HeaderOf(h).address = NoHash
    \/ HeaderOf(h).address \in cas.headers \cup element_cache.headers

\* a host function authors the element of header h: source_chain.put and
\* integrate_to_cache on the vault elements and the metadata cache, then the
\* commit of the workspace.  A panic leaves nothing committed.
Author(h) ==
    /\ h \notin cas.headers
    /\ h \notin element_cache.headers
    /\ KnownTarget(h)
    /\ LET stored == put(cas, h, entry_data(h))
           r == integrate_to_cache(h, stored, meta_cache, now)
       IN  IF r.panic
           THEN /\ host_out' = [header |-> h, outcome |-> "Panic",
                                call |-> 1 - host_out.call]
                /\ UNCHANGED << cas, meta_cache >>
           ELSE /\ host_out' = [header |-> h, outcome |-> "Ok",
                                call |-> 1 - host_out.call]
                /\ cas' = r.element_store
                /\ meta_cache' = r.meta_store
    /\ UNCHANGED << meta, integrated_dht_ops, integration_queue, pc, ws, trigger,
                    trigger_publish, stop, producer, now, arrivals >>
    /\ UNCHANGED << valVars, element_cache, get_result, spaceVars, opsVars,
                    chainVars, vaultVars, dhtVars, socketVars >>

NextHost ==
    \/ \E h \in Fetchable : CacheElement(h)
    \/ \E h \in Authorable : Author(h)

SpecHost == Init /\ [][NextHost]_vars

\* the rows an op leaves in the metadata cache
CacheRowsOf(op) ==
    LET h == op.header
        hd == HeaderOf(h)
    IN  CASE op.type = "StoreEntry" -> { << "headers_on_entry", hd.entry_hash, h >> }
          [] op.type = "RegisterAgentActivity" -> { << "activity_by_author", hd.author, h >> }
          [] op.type = "RegisterReplacedBy" ->
                { << "updates_on_entry", entry_data(hd.address), h >> }
          [] op.type \in {"RegisterDeletedBy", "RegisterDeletedEntryHeader"} ->
                { << "deletes_on_header", hd.address, h >>,
                  << "deletes_on_entry", entry_data(hd.address), h >> }
          [] op.type = "RegisterAddLink" -> { << "link_add", hd.base_address, h >> }
          [] op.type = "RegisterRemoveLink" ->
                { << "link_remove", hd.base_address, hd.address >> }
          [] OTHER -> {}

\* C29: every call of a host function that authors an element ends without
\* a deferred op, and leaves in the metadata cache the rows of all the ops
\* derived from the element, where a get of the same call finds them.
C29_NeverDefers ==
    [][host_out'.call # host_out.call =>
        /\ host_out'.outcome = "Ok"
        /\ \A op \in Range(produce_ops_from_element(host_out'.header,
                                                    entry_data(host_out'.header)).ops) :
                CacheRowsOf(op) \subseteq meta_cache']_vars

(***************************************************************************)
(* Dependencies between the ops of one batch.                              *)
(***************************************************************************)
\* the header an op needs in the element store to be integrated
NeedsHeader(op) ==
    IF \/ op.type \in {"RegisterDeletedBy", "RegisterDeletedEntryHeader"}
       \/ op.type = "RegisterReplacedBy" /\ HeaderOf(op.header).intended_for = "Entry"
    THEN HeaderOf(op.header).address ELSE NoHash

\* the entry an op needs in the element store to be integrated
NeedsEntry(op) ==
    IF op.type = "RegisterRemoveLink" THEN HeaderOf(op.header).base_address ELSE NoHash

\* op a stores what op b needs
Supplies(a, b) ==
    \/ /\ NeedsHeader(b) # NoHash
       /\ a.header = NeedsHeader(b)
       /\ a.type \in {"StoreElement", "StoreEntry", "RegisterAgentActivity"}
    \/ /\ NeedsEntry(b) # NoHash
       /\ a.entry = NeedsEntry(b)
       /\ a.type \in {"StoreElement", "StoreEntry"}

\* the ops drained by the pass that is running
Batch == { integration_queue[i].op : i \in 1..ws.drained }

\* C30: when a pass commits, an op of its batch whose missing dependency is
\* supplied by another op of the same batch is integrated, and so is the
\* supplier, whichever of the two came first in the queue.
C30_SamePass ==
    [][(pc = "commit" /\ pc' = "finish") =>
        \A a, b \in Batch :
            Supplies(a, b) =>
                /\ DhtOpHash(a) \in DOMAIN integrated_dht_ops'
                /\ DhtOpHash(b) \in DOMAIN integrated_dht_ops']_vars

\* a pass drained the delete of H1 ahead of the StoreEntry of H1: the first
\* round integrated the StoreEntry only, the second round the delete, and
\* the pass is about to commit both
C30_Witness ==
    /\ pc = "commit"
    /\ ws.drained = 2
    /\ integration_queue[1].op = DhtOp("RegisterDeletedBy", "D1", NoHash)
    /\ integration_queue[2].op = DhtOp("StoreEntry", "H1", "E1")
    /\ ws.total_integrated = 2 /\ ws.num_integrated = 1
    /\ ws.ops = << >>

(***************************************************************************)
(* The ops of a pass at its commit.                                        *)
(***************************************************************************)
\* the number of ops the queue holds beyond those that arrived during the pass
PutBack(queue_after) == Len(queue_after) - (Len(integration_queue) - ws.drained)

\* C31: at the commit of a pass every op the pass drained is in the
\* integrated-op index or in the integration queue; the pass returns Complete
\* exactly when it put no op back into the queue, Incomplete otherwise; and
\* a pass that entered its loop reaches its commit.
C31_NoOpLost ==
    /\ [][(pc = "commit" /\ pc' = "finish") =>
            /\ \A i \in 1..ws.drained :
                  \/ DhtOpHash(integration_queue[i].op) \in DOMAIN integrated_dht_ops'
                  \/ \E j \in DOMAIN integration_queue' :
                        integration_queue'[j] = integration_queue[i]
            /\ ws'.result = "Complete" <=> PutBack(integration_queue') = 0
            /\ ws'.result = "Incomplete" <=> PutBack(integration_queue') > 0]_vars
    /\ (pc = "loop" ~> pc = "commit")

\* a pass that drained two ops has committed: it integrated one, put the
\* other back into the queue and returned Incomplete
C31_Witness ==
    /\ pc = "finish"
    /\ ws.result = "Incomplete"
    /\ ws.total_integrated = 1
    /\ Len(integration_queue) = 1
    /\ ~Integrated(integration_queue[1].op)
    /\ arrivals = 2

(***************************************************************************)
(* The consumer task under the stop broadcast.                             *)
(***************************************************************************)
NextStop ==
    \/ Consumer
    \/ \E op \in OpUniverse : Enqueue(op)
    \/ TriggerIntegration
    \/ Stop
    \/ PassFail

\* the task is scheduled whenever it can take a step
SpecStop == Init /\ [][NextStop]_vars /\ WF_vars(Consumer) /\ WF_vars(TriggerIntegration)

\* the task has ended: it broke out of its loop, or it panicked
Terminated == pc \in {"stopped", "panicked"}

\* C32: once the stop signal is broadcast the consumer task eventually
\* terminates.
C32_StopTerminates == stop ~> Terminated

(***************************************************************************)
(* The ops of an app validation pass at its commit.                        *)
(***************************************************************************)
\* the limbo values the filter of drain_iter_filter lets through
DrainedByPass(o) ==
    /\ o \in DOMAIN validation_limbo
    /\ validation_limbo[o].status \in {"SysValidated", "AwaitingAppDeps", "AwaitingProof"}

\* C33: after an app validation pass every op the pass drained from the
\* validation limbo is in the validation limbo or in the integration limbo
\* and not in both, and a drained op with dependencies to be proven is in the
\* integration limbo only if each of them is in the integration limbo or in
\* the integrated-op index.
C33_NoOpLost ==
    [][app_validation_workflow =>
        \A o \in Range(LimboKeys) :
            DrainedByPass(o) =>
                /\ (o \in DOMAIN validation_limbo') # (o \in DOMAIN integration_limbo')
                /\ o \in DOMAIN integration_limbo' =>
                      \A dep \in validation_limbo[o].deps :
                          \/ dep \in DOMAIN integration_limbo'
                          \/ dep \in DOMAIN integrated_dht_ops']_vars

\* a pass has moved op_c, which awaited the proof of op_b, to the integration
\* limbo behind op_b, and has put op_d, whose dependency is not proven, back
\* into the validation limbo
C33_Witness ==
    /\ "op_c" \in DOMAIN integration_limbo
    /\ "op_c" \notin DOMAIN validation_limbo
    /\ \/ "op_b" \in DOMAIN integration_limbo
       \/ "op_b" \in DOMAIN integrated_dht_ops
    /\ "op_d" \in DOMAIN validation_limbo
    /\ "op_d" \notin DOMAIN integration_limbo
    /\ validation_limbo["op_d"].status = "AwaitingProof"
    /\ validation_limbo["op_d"].deps = {"op_z"}
    /\ validation_limbo["op_d"].num_tries > 0

(***************************************************************************)
(* Spaces::handle_query_op_hashes.                                         *)
(***************************************************************************)
\* DhtArcRange
Full == [kind |-> "Full", start_loc |-> 0, end_loc |-> 0]
Empty == [kind |-> "Empty", start_loc |-> 0, end_loc |-> 0]
Bounded(start_loc, end_loc) ==
    [kind |-> "Bounded", start_loc |-> start_loc, end_loc |-> end_loc]

\* the arc sets of a query, as the intervals of DhtArcSet::intervals
ArcSets == { << Full >>, << Bounded(0, 0) >>, << Bounded(0, 1) >>, << Empty >> }

\* TimeWindow: start inclusive, end exclusive
TimeWindows == { [start |-> 0, end |-> 2], [start |-> 1, end |-> 2],
                 [start |-> 0, end |-> 1] }

\* the values of max_ops
QueryLimits == {1, 3}

\* the clauses on storage_center_loc: none under a full arc, one per bounded
\* interval otherwise
sql_ranges(intervals, loc) ==
    IF intervals # << >> /\ Head(intervals).kind = "Full" THEN TRUE
    ELSE \A i \in DOMAIN intervals :
            LET interval == intervals[i]
            IN  interval.kind = "Bounded" =>
                    IF interval.start_loc <= interval.end_loc
                    THEN loc >= interval.start_loc /\ loc <= interval.end_loc
                    ELSE loc < interval.end_loc \/ loc > interval.start_loc

\* the rows FETCH_OP_HASHES selects: the ops of the window and of the arcs,
\* those of the limbo only on demand
fetch_op_hashes_rows(space, intervals, window, include_limbo) ==
    { hash \in space.integrated \cup (IF include_limbo THEN space.limbo ELSE {}) :
        /\ OpRow(hash).timestamp >= window.start
        /\ OpRow(hash).timestamp < window.end
        /\ sql_ranges(intervals, OpRow(hash).storage_center_loc) }

\* the order of the rows: ascending (location, authored_timestamp)
RowBefore(a, b) ==
    \/ OpRow(a).storage_center_loc < OpRow(b).storage_center_loc
    \/ /\ OpRow(a).storage_center_loc = OpRow(b).storage_center_loc
       /\ OpRow(a).timestamp < OpRow(b).timestamp

\* ORDER BY .. LIMIT :limit
RECURSIVE order_limit(_, _)
order_limit(rows, limit) ==
    IF rows = {} \/ limit = 0 THEN << >>
    ELSE LET first == CHOOSE a \in rows : \A b \in rows \ {a} : RowBefore(a, b)
         IN  << first >> \o order_limit(rows \ {first}, limit - 1)

\* the closure of async_reader: the hashes, and the authored timestamps of
\* the first and of the last of them as the inclusive range
query_op_hashes(space, intervals, window, max_ops, include_limbo) ==
    LET hashes == order_limit(
                    fetch_op_hashes_rows(space, intervals, window, include_limbo), max_ops)
    IN  IF hashes = << >> THEN [found |-> FALSE]
        ELSE [found |-> TRUE, hashes |-> hashes,
              start |-> OpRow(hashes[1]).timestamp,
              end |-> OpRow(hashes[Len(hashes)]).timestamp]

\* Spaces::handle_query_op_hashes
HandleQueryOpHashes(dna_hash, intervals, window, max_ops, include_limbo, db_ok) ==
    /\ LET r == get_or_create_space_ref(map, space_new, dna_hash, db_ok)
       IN  /\ map' = r.map
           /\ space_new' = r.space_new
           /\ gossip_out' =
                [op |-> "query_op_hashes", dna |-> dna_hash,
                 countersigning_session |-> FALSE,
                 ops |-> [intervals |-> intervals, window |-> window,
                          max_ops |-> max_ops, include_limbo |-> include_limbo],
                 out |-> IF r.ok
                         THEN query_op_hashes(r.map[dna_hash], intervals, window,
                                              max_ops, include_limbo)
                         ELSE [found |-> FALSE],
                 ok |-> r.ok, call |-> 1 - gossip_out.call]
    /\ UNCHANGED << queue_consumer_map, threads, published >>
    /\ UNCHANGED << intVars, valVars, cascadeVars, opsVars, restVars >>

NextQuery ==
    \/ \E dna_hash \in DnaHashes : SpawnQueueConsumers(dna_hash)
    \/ \E dna_hash \in DnaHashes, ops \in PublishOps, db_ok \in BOOLEAN :
            HandlePublish(dna_hash, FALSE, ops, db_ok)
    \/ \E dna_hash \in DnaHashes, hash \in SpaceOps : IntegrateSpaceOp(dna_hash, hash)
    \/ \E dna_hash \in DnaHashes, intervals \in ArcSets, window \in TimeWindows,
          max_ops \in QueryLimits, include_limbo \in BOOLEAN, db_ok \in BOOLEAN :
            HandleQueryOpHashes(dna_hash, intervals, window, max_ops, include_limbo,
                                db_ok)

SpecQuery == Init /\ [][NextQuery]_vars

\* a call of handle_query_op_hashes that ends Ok
QueryAnswered ==
    /\ gossip_out'.call # gossip_out.call
    /\ gossip_out'.op = "query_op_hashes"
    /\ gossip_out'.ok

\* C34: the hashes of an answer are in ascending (location, authored
\* timestamp) order and the authored timestamp of each lies in the inclusive
\* range of the answer; there is no answer exactly when no op matches.
C34_RangeCoversHashes ==
    [][QueryAnswered =>
        LET q == gossip_out'.ops
            a == gossip_out'.out
            rows == fetch_op_hashes_rows(map'[gossip_out'.dna], q.intervals, q.window,
                                         q.include_limbo)
        IN  /\ a.found <=> rows # {}
            /\ a.found =>
                /\ \A i, j \in DOMAIN a.hashes :
                      i < j => RowBefore(a.hashes[i], a.hashes[j])
                /\ \A i \in DOMAIN a.hashes :
                      /\ a.start <= OpRow(a.hashes[i]).timestamp
                      /\ OpRow(a.hashes[i]).timestamp <= a.end]_vars

(***************************************************************************)
(* GetEntryQuery::fold over the rows of an entry, in any order and with    *)
(* repetitions.                                                            *)
(***************************************************************************)
\* the longest list of rows folded
MaxFold == 3

\* the creates of the entry E1 and the deletes on them
FoldHeaders == {"H1", "H2", "D1", "D2"}

FoldCalls == { [fn |-> "fold", rows |-> rows] : rows \in SeqsUpTo(FoldHeaders, MaxFold) }

\* Maps::new
init_fold == [creates |-> {}, deletes |-> {}]

\* nothing folded yet
NoFold(rows) == [done |-> rows = << >>, state |-> init_fold, rest |-> rows]

\* the query folds its next row
Fold ==
    /\ dht_call.fn = "fold"
    /\ dht_out.rest # << >>
    /\ dht_out' = [done |-> Tail(dht_out.rest) = << >>,
                   state |-> fold(dht_out.state, Head(dht_out.rest)),
                   rest |-> Tail(dht_out.rest)]
    /\ UNCHANGED << dht_call, intVars, valVars, cascadeVars, spaceVars, opsVars,
                    chainVars, vaultVars, hostVars, socketVars >>

InitFold ==
    /\ InitConductor
    /\ dht_call \in FoldCalls
    /\ dht_out = NoFold(dht_call.rows)

NextFold == Fold

SpecFold == InitFold /\ [][NextFold]_vars

\* C35: the creates left by the fold of a list of rows are the creates of
\* the list that no delete of the list targets, and so are those left by the
\* fold of any other list of the same rows, in another order or with rows
\* repeated.
C35_FoldCommutes ==
    (dht_call.fn = "fold" /\ dht_out.done) =>
        LET rows == dht_call.rows
            S == Range(rows)
        IN  /\ dht_out.state.creates =
                    { h \in S : /\ HeaderOf(h).type = "EntryCreate"
                                /\ \A d \in S : HeaderOf(d).type = "ElementDelete"
                                                    => HeaderOf(d).address # h }
            /\ \A other \in SeqsUpTo(FoldHeaders, MaxFold) :
                    Range(other) = S =>
                        fold_all(init_fold, other).creates = dht_out.state.creates

\* the delete of H1 was folded before the create H1 and the create H2, and
\* H2 alone is live
C35_Witness ==
    /\ dht_call.fn = "fold"
    /\ dht_call.rows = << "D1", "H1", "H2" >>
    /\ dht_out.done
    /\ dht_out.state.creates = {"H2"}

(***************************************************************************)
(* The init marker of a source chain.                                      *)
(***************************************************************************)
\* the init markers of a committed chain
InitMarkers(chain) == { k \in DOMAIN chain : chain[k].type = "InitZomesComplete" }

\* C36: a committed chain carries an init marker only when the init callback
\* of its cell returned Pass, and never more than one.
C36_MarkerOnlyOnPass ==
    \A c \in Cells :
        /\ Cardinality(InitMarkers(source_chain[c])) <= 1
        /\ InitMarkers(source_chain[c]) # {} =>
              workflow_out[c] = [workflow |-> "initialize_zomes", result |-> "Pass"]

(***************************************************************************)
(* The cascade under answers that declare another entry hash than the one  *)
(* asked for.                                                              *)
(***************************************************************************)
\* an answer to a get of e that declares the hash of another entry and
\* carries content that hashes to neither
Misdeclared(e) ==
    { GetEntryFullResponse(TRUE, {h}, {}, BadEntry, x) :
        h \in CreatesOf(e), x \in {"E1", "E2"} \ {e} }

NextFetch ==
    \/ \E h \in GetHeaderHashes :
            \E results \in SeqsUpTo(HeaderResponses(h), MaxResponses) :
                DhtGetHeader(h, results)
    \/ \E e \in GetEntryHashes :
            \E elements \in SeqsUpTo(EntryResponses(e) \cup Misdeclared(e), MaxResponses) :
                DhtGetEntry(e, elements)

SpecFetch == Init /\ [][NextFetch]_vars

\* C37: the cache holds no entry whose content does not hash to the entry
\* hash of the header it came with, and no metadata on it: every cached
\* entry is the declared entry of a cached header.
C37_NoMismatchedEntry ==
    /\ \A x \in element_cache.entries :
            \E h \in element_cache.headers : entry_data(h) = x
    /\ \A row \in meta_cache : row[2] # BadEntry

(***************************************************************************)
(* The headers of a countersigning session.                                *)
(***************************************************************************)
SessionAgents == {"A1", "A2", "A3"}

\* the frozen chain top of an agent and its header sequence
ChainTop(agent) ==
    CASE agent = "A1" -> [chain_top |-> "top1", header_seq |-> 3]
      [] agent = "A2" -> [chain_top |-> "top2", header_seq |-> 7]
      [] agent = "A3" -> [chain_top |-> "top3", header_seq |-> 0]

\* the lists without repetition over a set, of every length
RECURSIVE Injections(_)
Injections(S) ==
    { << >> } \cup UNION { { << x >> \o rest : rest \in Injections(S \ {x}) } : x \in S }

\* PreflightRequest: the signing agents in their order, and the header base
PreflightRequests ==
    { [signing_agents |-> agents, header_base |-> base] :
        agents \in { a \in Injections(SessionAgents) : Len(a) = Cardinality(SessionAgents) },
        base \in {"Create", "Update"} }

\* the position of an agent among the signing agents, from 0; none is -1
position(signing_agents, agent) ==
    IF \E i \in DOMAIN signing_agents : signing_agents[i] = agent
    THEN (CHOOSE i \in DOMAIN signing_agents :
            /\ signing_agents[i] = agent
            /\ \A j \in DOMAIN signing_agents : signing_agents[j] = agent => i <= j) - 1
    ELSE -1

\* PreflightResponse of an agent that accepts the request: its index among
\* the signing agents, its chain top, its signature
PreflightResponse(request, agent) ==
    [request |-> request,
     agent_state |-> [agent_index |-> position(request.signing_agents, agent),
                      chain_top |-> ChainTop(agent).chain_top,
                      header_seq |-> ChainTop(agent).header_seq],
     signature |-> agent]

\* the responses of a session as they are supplied: those of some of the
\* signing agents, in any order
SessionCalls ==
    { [fn |-> "build_header_set",
       responses |-> [i \in DOMAIN order |-> PreflightResponse(request, order[i])]] :
        request \in PreflightRequests, order \in Injections(SessionAgents) }

\* CounterSigningSessionData::try_from_responses
try_from_responses(responses) ==
    IF responses = << >> THEN [ok |-> FALSE, error |-> "MissingResponse"]
    ELSE [ok |-> TRUE,
          preflight_request |-> responses[1].request,
          responses |-> [i \in DOMAIN responses |->
                            << responses[i].agent_state, responses[i].signature >>]]

\* CounterSigningSessionData::agent_state_for_agent
agent_state_for_agent(session_data, agent) ==
    LET agent_index == position(session_data.preflight_request.signing_agents, agent)
    IN  IF agent_index >= 0 /\ agent_index + 1 \in DOMAIN session_data.responses
        THEN [ok |-> TRUE, agent_state |-> session_data.responses[agent_index + 1][1]]
        ELSE [ok |-> FALSE, error |-> "AgentIndexOutOfBounds"]

\* Header::from_countersigning_data
from_countersigning_data(session_data, author) ==
    LET r == agent_state_for_agent(session_data, author)
    IN  IF ~r.ok THEN r
        ELSE [ok |-> TRUE,
              header |-> [type |-> session_data.preflight_request.header_base,
                          author |-> author,
                          header_seq |-> r.agent_state.header_seq + 1,
                          prev_header |-> r.agent_state.chain_top]]

\* CounterSigningSessionData::build_header_set: one header per signing agent,
\* or the first error
RECURSIVE build_headers(_, _, _)
build_headers(session_data, agents, headers) ==
    IF agents = << >> THEN [ok |-> TRUE, headers |-> headers]
    ELSE LET r == from_countersigning_data(session_data, Head(agents))
         IN  IF ~r.ok THEN r
             ELSE build_headers(session_data, Tail(agents), Append(headers, r.header))

build_header_set(session_data) ==
    build_headers(session_data, session_data.preflight_request.signing_agents, << >>)

\* the session data is built from the responses and mapped to its headers
BuildHeaderSet ==
    /\ dht_call.fn = "build_header_set"
    /\ ~dht_out.done
    /\ LET session_data == try_from_responses(dht_call.responses)
       IN  dht_out' = [done |-> TRUE,
                       result |-> IF session_data.ok THEN build_header_set(session_data)
                                  ELSE session_data]
    /\ UNCHANGED << dht_call, intVars, valVars, cascadeVars, spaceVars, opsVars,
                    chainVars, vaultVars, hostVars, socketVars >>

InitSession ==
    /\ InitConductor
    /\ dht_call \in SessionCalls
    /\ dht_out = NoOut

NextSession == BuildHeaderSet

SpecSession == InitSession /\ [][NextSession]_vars

\* C38: when build_header_set returns headers, there is one per signing
\* agent, in the order of the signing agents, and the header of each agent
\* has the chain top of that agent's own preflight response as prev_header
\* and the header sequence of that response plus one as header_seq.
C38_OwnResponse ==
    (dht_call.fn = "build_header_set" /\ dht_out.done /\ dht_out.result.ok) =>
        LET signing_agents == dht_call.responses[1].request.signing_agents
            headers == dht_out.result.headers
        IN  /\ Len(headers) = Len(signing_agents)
            /\ \A i \in DOMAIN signing_agents :
                  /\ headers[i].author = signing_agents[i]
                  /\ \E k \in DOMAIN dht_call.responses :
                        LET own == dht_call.responses[k]
                        IN  /\ own.signature = signing_agents[i]
                            /\ headers[i].prev_header = own.agent_state.chain_top
                            /\ headers[i].header_seq = own.agent_state.header_seq + 1

\* ---------------------------------------------------------------------
\* The receiving half of a websocket: the requests awaiting a response.
\* Incoming signals and requests do not touch the pending table and are
\* left out; a response carries the data of its id.
\* ---------------------------------------------------------------------

MaxInstant == 3

MaxSocket == 2

\* WebsocketConfig::default_request_timeout_ms, in ticks of the clock
default_request_timeout_ms == 1

\* RequestItem of a request registered at `at`
RequestItem(at) == [expires_at |-> at + default_request_timeout_ms]

\* HashMap::insert and the ids removed from the map
Insert(table, id, item) ==
    [k \in (DOMAIN table) \cup {id} |-> IF k = id THEN item ELSE table[k]]

Remove(table, ids) == [k \in (DOMAIN table) \ ids |-> table[k]]

\* priv_prep_send: a message with an id and a responder is entered in the
\* pending table with its expiry; any other message leaves the table alone
priv_prep_send(table, msg, at) ==
    IF msg.respond THEN Insert(table, msg.id, RequestItem(at)) ELSE table

\* oneshot::Sender::send: the value reaches the receiver unless it was dropped
Sent(ws_, id, value) ==
    IF ws_[id].state = "dropped" THEN ws_
    ELSE [ws_ EXCEPT ![id].got = Append(@, value)]

\* priv_check_incoming of a Response: the item of the id is removed from the
\* table and its responder is sent the data; a dropped receiver is an error,
\* an id not in the table is passed over
priv_check_incoming(table, ws_, id) ==
    IF id \in DOMAIN table
    THEN [table |-> Remove(table, {id}),
          waiters |-> Sent(ws_, id, "Response"),
          ok |-> ws_[id].state # "dropped"]
    ELSE [table |-> table, waiters |-> ws_, ok |-> TRUE]

\* the ids of the table that have expired at `at`
Expired(table, at) == {id \in DOMAIN table : table[id].expires_at < at}

\* priv_prune_pending: every expired item is sent TimedOut and removed; the
\* result of the send is ignored
priv_prune_pending(table, ws_, at) ==
    [table |-> Remove(table, Expired(table, at)),
     waiters |-> [id \in DOMAIN ws_ |->
                    IF id \in Expired(table, at) /\ ws_[id].state # "dropped"
                    THEN [ws_[id] EXCEPT !.got = Append(@, "TimedOut")]
                    ELSE ws_[id]]]

\* WebsocketSender::request: the request and the sending end of its oneshot
\* channel are put on the channel of outgoing messages
Request(id) ==
    /\ waiters[id].state = "unsent"
    /\ waiters' = [waiters EXCEPT ![id].state = "waiting"]
    /\ recv_outgoing' = Append(recv_outgoing, [id |-> id, respond |-> TRUE])
    /\ UNCHANGED << pending_requests, socket, instant, stream_out >>
    /\ UNCHANGED << intVars, valVars, cascadeVars, spaceVars, opsVars,
                    chainVars, vaultVars, dhtVars, hostVars >>

\* the caller gives up on a request it made: the receiver is dropped
DropReceiver(id) ==
    /\ waiters[id] = [state |-> "waiting", got |-> << >>]
    /\ waiters' = [waiters EXCEPT ![id].state = "dropped"]
    /\ UNCHANGED << pending_requests, recv_outgoing, socket, instant, stream_out >>
    /\ UNCHANGED << intVars, valVars, cascadeVars, spaceVars, opsVars,
                    chainVars, vaultVars, dhtVars, hostVars >>

\* the request `id` has been sent to the remote end
Delivered(id) ==
    /\ waiters[id].state # "unsent"
    /\ \A i \in DOMAIN recv_outgoing : recv_outgoing[i].id # id

\* the remote end sends a Response, to a request it has received, any number
\* of times, or with an id that was never requested; `at` is when it arrives
RemoteResponse(id) ==
    /\ id \in RequestIds => Delivered(id)
    /\ Len(socket) < MaxSocket
    /\ socket' = Append(socket, [id |-> id, at |-> instant])
    /\ UNCHANGED << pending_requests, recv_outgoing, waiters, instant, stream_out >>
    /\ UNCHANGED << intVars, valVars, cascadeVars, spaceVars, opsVars,
                    chainVars, vaultVars, dhtVars, hostVars >>

\* time passes
TickInstant ==
    /\ instant < MaxInstant
    /\ instant' = instant + 1
    /\ UNCHANGED << pending_requests, recv_outgoing, socket, waiters, stream_out >>
    /\ UNCHANGED << intVars, valVars, cascadeVars, spaceVars, opsVars,
                    chainVars, vaultVars, dhtVars, hostVars >>

\* the table after priv_poll_send: with the sink ready, the oldest outgoing
\* message is prepared and sent
AfterSend(sink_ready) ==
    IF sink_ready /\ recv_outgoing # << >>
    THEN priv_prep_send(pending_requests, Head(recv_outgoing), instant)
    ELSE pending_requests

\* poll_next: one outgoing message is sent if the sink is ready, one incoming
\* message is read if there is one, and the expired requests are pruned
PollNext(sink_ready) ==
    LET sent == AfterSend(sink_ready)
        read == IF socket # << >>
                THEN priv_check_incoming(sent, waiters, Head(socket).id)
                ELSE [table |-> sent, waiters |-> waiters, ok |-> TRUE]
        pruned == priv_prune_pending(read.table, read.waiters, instant)
    IN  /\ recv_outgoing' = IF sink_ready /\ recv_outgoing # << >>
                            THEN Tail(recv_outgoing) ELSE recv_outgoing
        /\ socket' = IF socket # << >> THEN Tail(socket) ELSE socket
        /\ pending_requests' = pruned.table
        /\ waiters' = pruned.waiters
        /\ stream_out' = IF read.ok THEN "Pending" ELSE "Err"
        /\ UNCHANGED instant
        /\ UNCHANGED << intVars, valVars, cascadeVars, spaceVars, opsVars,
                        chainVars, vaultVars, dhtVars, hostVars >>

NextSocket ==
    \/ \E id \in RequestIds : Request(id)
    \/ \E id \in RequestIds : DropReceiver(id)
    \/ \E id \in RequestIds \cup {UnknownId} : RemoteResponse(id)
    \/ TickInstant
    \/ \E sink_ready \in BOOLEAN : PollNext(sink_ready)

SpecSocket == Init /\ [][NextSocket]_vars

\* the request `id` is completed by this step
Completes(id) == Len(waiters'[id].got) > Len(waiters[id].got)

\* C39: a request registered with a responder is completed at most once and
\* is then out of the pending table; it is completed with the response only
\* when the response arrived before the request expired, and with TimedOut
\* only when it has expired; a response that arrives for an id that is
\* unknown or has already expired completes nothing and does not fail the
\* stream.
C39_CompletedOnce ==
    [][ /\ \A id \in RequestIds :
              Completes(id) =>
                 /\ waiters[id].got = << >>
                 /\ Len(waiters'[id].got) = 1
                 /\ id \notin DOMAIN pending_requests'
                 /\ waiters'[id].got[1] = "Response" =>
                       /\ socket # << >> /\ Head(socket).id = id
                       /\ id \notin Expired(pending_requests, Head(socket).at)
                 /\ waiters'[id].got[1] = "TimedOut" =>
                       id \in Expired(pending_requests, instant)
        /\ (socket # << >> /\ socket' = Tail(socket)) =>
              LET msg == Head(socket)
              IN  (msg.id \notin DOMAIN pending_requests
                      \/ msg.id \in Expired(pending_requests, msg.at)) =>
                     /\ stream_out' # "Err"
                     /\ msg.id \in RequestIds => ~Completes(msg.id) ]_vars

====
